---- MODULE Spec2Model ----
(***************************************************************************)
(* The GDPR compliance analysis engine: the requirements snapshot held by  *)
(* an analyzer (acquired at construction from the web scraper or from the  *)
(* compiled-in literal, replaced by update_gdpr_requirements), the keyword *)
(* coverage check, the interpretation of the model backend's response, and *)
(* the assembly of the weak points and the action plan.                    *)
(*                                                                         *)
(* Texts are sequences of atoms.  A document and a keyword are sequences   *)
(* of characters; a finding, a requirement or a response is a sequence of  *)
(* coarser atoms (a word, a sentence, a punctuation mark), fine enough for *)
(* every test the code makes on it (a prefix, a blank, a brace, a line).   *)
(***************************************************************************)
EXTENDS Integers, Sequences, FiniteSets, TLC

\* The longest document, in fragments of DocFragments.
MaxFrags == 2

\* The longest list of findings the merge is tried on.
MaxFindings == 3

\* The refreshes that replace the snapshot while one analysis runs.
MaxRefreshes == 1

Range(s) == {s[i] : i \in 1..Len(s)}

Min(a, b) == IF a < b THEN a ELSE b

\* The element of a one-element set.  Only({e(x) : x \in {v}}) is e(v) with v
\* computed once, where LET x == v IN e(x) may compute v at every use of x.
Only(S) == CHOOSE x \in S : TRUE

\* The six categories, in the order both compliance_keywords literals declare them.
Categories ==
  <<"consent", "anonymization", "policy_updates", "data_subject_rights", "data_breach",
    "third_party">>

CategorySet == Range(Categories)

UpperChars ==
  <<"A","B","C","D","E","F","G","H","I","J","K","L","M","N","O","P","Q","R","S","T","U","V","W","X","Y","Z">>

LowerChars ==
  <<"a","b","c","d","e","f","g","h","i","j","k","l","m","n","o","p","q","r","s","t","u","v","w","x","y","z">>

UpperSet == {UpperChars[i] : i \in 1..Len(UpperChars)}

ToLower == [c \in UpperSet |-> LowerChars[CHOOSE i \in 1..Len(UpperChars) : UpperChars[i] = c]]

LowerChar(c) == IF c \in UpperSet THEN ToLower[c] ELSE c

\* str.lower(): every upper-case letter replaced, every other character kept.
Lower(s) == [i \in 1..Len(s) |-> LowerChar(s[i])]

\* Python's `needle in hay` on strings: needle occurs as a contiguous run of hay.
Contains(needle, hay) ==
  \E i \in 0..(Len(hay) - Len(needle)) : \A j \in 1..Len(needle) : hay[i + j] = needle[j]

\* GDPRReplicateAnalyzer.compliance_keywords: each keyword is the sequence of its characters.
ReplicateKeywords ==
  "consent" :> <<
       <<"e","x","p","l","i","c","i","t"," ","c","o","n","s","e","n","t">>,   \* "explicit consent"
       <<"o","p","t","-","i","n">>,   \* "opt-in"
       <<"c","o","n","s","e","n","t"," ","f","o","r","m">>,   \* "consent form"
       <<"c","o","n","s","e","n","t"," ","m","a","n","a","g","e","m","e","n","t">>,   \* "consent management"
       <<"w","i","t","h","d","r","a","w"," ","c","o","n","s","e","n","t">>,   \* "withdraw consent"
       <<"c","o","n","s","e","n","t"," ","r","e","c","o","r","d","s">>   \* "consent records"
     >>
  @@ "anonymization" :> <<
       <<"a","n","o","n","y","m","i","z","a","t","i","o","n">>,   \* "anonymization"
       <<"p","s","e","u","d","o","n","y","m","i","z","a","t","i","o","n">>,   \* "pseudonymization"
       <<"e","n","c","r","y","p","t","i","o","n">>,   \* "encryption"
       <<"d","a","t","a"," ","p","r","o","t","e","c","t","i","o","n">>,   \* "data protection"
       <<"p","e","r","s","o","n","a","l"," ","d","a","t","a"," ","s","e","c","u","r","i","t","y">>,   \* "personal data security"
       <<"d","a","t","a"," ","m","i","n","i","m","i","z","a","t","i","o","n">>   \* "data minimization"
     >>
  @@ "policy_updates" :> <<
       <<"p","o","l","i","c","y"," ","u","p","d","a","t","e">>,   \* "policy update"
       <<"r","e","g","u","l","a","r"," ","r","e","v","i","e","w">>,   \* "regular review"
       <<"p","o","l","i","c","y"," ","v","e","r","s","i","o","n">>,   \* "policy version"
       <<"l","a","s","t"," ","u","p","d","a","t","e","d">>,   \* "last updated"
       <<"p","o","l","i","c","y"," ","c","h","a","n","g","e">>,   \* "policy change"
       <<"n","o","t","i","f","i","c","a","t","i","o","n"," ","o","f"," ","c","h","a","n","g","e","s">>   \* "notification of changes"
     >>
  @@ "data_subject_rights" :> <<
       <<"r","i","g","h","t"," ","t","o"," ","a","c","c","e","s","s">>,   \* "right to access"
       <<"r","i","g","h","t"," ","t","o"," ","e","r","a","s","u","r","e">>,   \* "right to erasure"
       <<"r","i","g","h","t"," ","t","o"," ","b","e"," ","f","o","r","g","o","t","t","e","n">>,   \* "right to be forgotten"
       <<"d","a","t","a"," ","p","o","r","t","a","b","i","l","i","t","y">>,   \* "data portability"
       <<"r","i","g","h","t"," ","t","o"," ","o","b","j","e","c","t">>,   \* "right to object"
       <<"D","S","A","R">>,   \* "DSAR"
       <<"s","u","b","j","e","c","t"," ","a","c","c","e","s","s"," ","r","e","q","u","e","s","t">>   \* "subject access request"
     >>
  @@ "data_breach" :> <<
       <<"d","a","t","a"," ","b","r","e","a","c","h">>,   \* "data breach"
       <<"s","e","c","u","r","i","t","y"," ","i","n","c","i","d","e","n","t">>,   \* "security incident"
       <<"b","r","e","a","c","h"," ","n","o","t","i","f","i","c","a","t","i","o","n">>,   \* "breach notification"
       <<"7","2"," ","h","o","u","r","s">>,   \* "72 hours"
       <<"b","r","e","a","c","h"," ","d","e","t","e","c","t","i","o","n">>,   \* "breach detection"
       <<"i","n","c","i","d","e","n","t"," ","r","e","s","p","o","n","s","e">>   \* "incident response"
     >>
  @@ "third_party" :> <<
       <<"t","h","i","r","d"," ","p","a","r","t","y">>,   \* "third party"
       <<"d","a","t","a"," ","p","r","o","c","e","s","s","o","r">>,   \* "data processor"
       <<"v","e","n","d","o","r">>,   \* "vendor"
       <<"d","a","t","a"," ","t","r","a","n","s","f","e","r">>,   \* "data transfer"
       <<"i","n","t","e","r","n","a","t","i","o","n","a","l"," ","t","r","a","n","s","f","e","r">>,   \* "international transfer"
       <<"d","a","t","a"," ","s","h","a","r","i","n","g"," ","a","g","r","e","e","m","e","n","t">>   \* "data sharing agreement"
     >>

\* GDPRFallbackAnalyzer.compliance_keywords: the lexicon above plus one or two extra keywords per
\* category.
FallbackKeywords ==
  "consent" :> <<
       <<"e","x","p","l","i","c","i","t"," ","c","o","n","s","e","n","t">>,   \* "explicit consent"
       <<"o","p","t","-","i","n">>,   \* "opt-in"
       <<"c","o","n","s","e","n","t"," ","f","o","r","m">>,   \* "consent form"
       <<"c","o","n","s","e","n","t"," ","m","a","n","a","g","e","m","e","n","t">>,   \* "consent management"
       <<"c","o","n","s","e","n","t">>,   \* "consent"
       <<"o","p","t"," ","o","u","t">>,   \* "opt out"
       <<"p","e","r","m","i","s","s","i","o","n">>   \* "permission"
     >>
  @@ "anonymization" :> <<
       <<"a","n","o","n","y","m","i","z","a","t","i","o","n">>,   \* "anonymization"
       <<"p","s","e","u","d","o","n","y","m","i","z","a","t","i","o","n">>,   \* "pseudonymization"
       <<"e","n","c","r","y","p","t","i","o","n">>,   \* "encryption"
       <<"d","a","t","a"," ","p","r","o","t","e","c","t","i","o","n">>,   \* "data protection"
       <<"p","e","r","s","o","n","a","l"," ","d","a","t","a"," ","s","e","c","u","r","i","t","y">>,   \* "personal data security"
       <<"d","a","t","a"," ","m","i","n","i","m","i","z","a","t","i","o","n">>,   \* "data minimization"
       <<"a","n","o","n","y","m","i","z","e">>   \* "anonymize"
     >>
  @@ "policy_updates" :> <<
       <<"p","o","l","i","c","y"," ","u","p","d","a","t","e">>,   \* "policy update"
       <<"r","e","g","u","l","a","r"," ","r","e","v","i","e","w">>,   \* "regular review"
       <<"p","o","l","i","c","y"," ","v","e","r","s","i","o","n">>,   \* "policy version"
       <<"l","a","s","t"," ","u","p","d","a","t","e","d">>,   \* "last updated"
       <<"p","o","l","i","c","y"," ","c","h","a","n","g","e">>,   \* "policy change"
       <<"n","o","t","i","f","i","c","a","t","i","o","n"," ","o","f"," ","c","h","a","n","g","e","s">>,   \* "notification of changes"
       <<"r","e","v","i","e","w">>   \* "review"
     >>
  @@ "data_subject_rights" :> <<
       <<"r","i","g","h","t"," ","t","o"," ","a","c","c","e","s","s">>,   \* "right to access"
       <<"r","i","g","h","t"," ","t","o"," ","e","r","a","s","u","r","e">>,   \* "right to erasure"
       <<"r","i","g","h","t"," ","t","o"," ","b","e"," ","f","o","r","g","o","t","t","e","n">>,   \* "right to be forgotten"
       <<"d","a","t","a"," ","p","o","r","t","a","b","i","l","i","t","y">>,   \* "data portability"
       <<"r","i","g","h","t"," ","t","o"," ","o","b","j","e","c","t">>,   \* "right to object"
       <<"D","S","A","R">>,   \* "DSAR"
       <<"s","u","b","j","e","c","t"," ","a","c","c","e","s","s"," ","r","e","q","u","e","s","t">>,   \* "subject access request"
       <<"a","c","c","e","s","s"," ","r","i","g","h","t","s">>,   \* "access rights"
       <<"u","s","e","r"," ","r","i","g","h","t","s">>   \* "user rights"
     >>
  @@ "data_breach" :> <<
       <<"d","a","t","a"," ","b","r","e","a","c","h">>,   \* "data breach"
       <<"s","e","c","u","r","i","t","y"," ","i","n","c","i","d","e","n","t">>,   \* "security incident"
       <<"b","r","e","a","c","h"," ","n","o","t","i","f","i","c","a","t","i","o","n">>,   \* "breach notification"
       <<"7","2"," ","h","o","u","r","s">>,   \* "72 hours"
       <<"b","r","e","a","c","h"," ","d","e","t","e","c","t","i","o","n">>,   \* "breach detection"
       <<"i","n","c","i","d","e","n","t"," ","r","e","s","p","o","n","s","e">>,   \* "incident response"
       <<"s","e","c","u","r","i","t","y"," ","b","r","e","a","c","h">>   \* "security breach"
     >>
  @@ "third_party" :> <<
       <<"t","h","i","r","d"," ","p","a","r","t","y">>,   \* "third party"
       <<"d","a","t","a"," ","p","r","o","c","e","s","s","o","r">>,   \* "data processor"
       <<"v","e","n","d","o","r">>,   \* "vendor"
       <<"d","a","t","a"," ","t","r","a","n","s","f","e","r">>,   \* "data transfer"
       <<"i","n","t","e","r","n","a","t","i","o","n","a","l"," ","t","r","a","n","s","f","e","r">>,   \* "international transfer"
       <<"d","a","t","a"," ","s","h","a","r","i","n","g"," ","a","g","r","e","e","m","e","n","t">>,   \* "data sharing agreement"
       <<"t","h","i","r","d","-","p","a","r","t","y">>   \* "third-party"
     >>

\* The narrative both the frozen snapshot and the scraper use when no update is known.
DefaultRecentChanges ==
  <<"As of 2025, GDPR regulations emphasize stricter data anonymization practices, and data subject access requests (DSARs) must be processed within 14 days instead of the previous 30.">>

\* The compiled-in reference list (also the scraper's list when no principle was extracted).
DefaultKeyRequirements ==
  <<<<"Predefined:", " ", "Data Minimization: Collect only the necessary data.">>,
    <<"Predefined:", " ",
      "Data Subject Rights: Ensure users can easily access, delete, and transfer their data.">>,
    <<"Predefined:", " ",
      "Data Breach Notification: Notify authorities within 72 hours of a breach.">>,
    <<"Predefined:", " ",
      "Accountability and Record Keeping: Maintain records of all processing activities.">>,
    <<"Predefined:", " ", "Lawful Basis: Process data only with a valid legal basis.">>,
    <<"Predefined:", " ", "Transparency: Provide clear privacy notices about data usage.">>>>

\* common_weak_points, the same literal in the frozen snapshot and in the scraper.
DefaultWeakPoints ==
  "consent" :> <<"Predefined:", " ", "Lack of clear consent management practices.">>
  @@ "anonymization" :> <<"Predefined:", " ", "Insufficient data anonymization for sensitive data.">>
  @@ "policy_updates" :> <<"Predefined:", " ", "Failure to update privacy policies regularly.">>
  @@ "data_subject_rights" :> <<"Predefined:", " ", "Inadequate mechanisms for users to exercise their rights.">>
  @@ "data_breach" :> <<"Predefined:", " ", "Insufficient data breach detection and notification procedures.">>
  @@ "third_party" :> <<"Predefined:", " ", "Lack of oversight for third-party data processors.">>

\* action_templates of the frozen snapshot.
FrozenActionTemplates ==
  "consent" :> <<
       <<"Predefined:", " ",
         "Implement explicit opt-in consent mechanisms for all data collection points.">>,
       <<"Predefined:", " ",
         "Ensure consent requests are presented clearly and separately from other terms.">>,
       <<"Predefined:", " ", "Provide easy ways for users to withdraw consent at any time.">>
     >>
  @@ "anonymization" :> <<
       <<"Predefined:", " ", "Implement robust anonymization techniques for all sensitive data.">>,
       <<"Predefined:", " ",
         "Conduct a data inventory to identify all places where personal data is stored.">>,
       <<"Predefined:", " ", "Use encryption for data both at rest and in transit.">>
     >>
  @@ "policy_updates" :> <<
       <<"Predefined:", " ",
         "Establish a quarterly schedule for reviewing and updating privacy policies.">>,
       <<"Predefined:", " ",
         "Create a change management process for documenting updates to data practices.">>,
       <<"Predefined:", " ", "Implement a version control system for privacy documentation.">>
     >>
  @@ "data_subject_rights" :> <<
       <<"Predefined:", " ",
         "Develop a streamlined process for handling data subject access requests.">>,
       <<"Predefined:", " ",
         "Create self-service portals for users to access, modify, and delete their data.">>,
       <<"Predefined:", " ", "Ensure all data subject requests are processed within 14 days.">>
     >>
  @@ "data_breach" :> <<
       <<"Predefined:", " ", "Implement automated breach detection systems.">>,
       <<"Predefined:", " ",
         "Create a response team and clear procedures for handling data breaches.">>,
       <<"Predefined:", " ", "Establish templates for notifying authorities and affected users.">>
     >>
  @@ "third_party" :> <<
       <<"Predefined:", " ", "Audit all third-party data processors for GDPR compliance.">>,
       <<"Predefined:", " ", "Update data processing agreements with all vendors.">>,
       <<"Predefined:", " ", "Implement regular compliance checks for third-party services.">>
     >>

\* action_templates of the scraper: two entries differ from the frozen snapshot's.
ScraperActionTemplates ==
  "consent" :> <<
       <<"Predefined:", " ",
         "Implement explicit opt-in consent mechanisms for all data collection points.">>,
       <<"Predefined:", " ",
         "Ensure consent requests are presented clearly and separately from other terms.">>,
       <<"Predefined:", " ", "Provide easy ways for users to withdraw consent at any time.">>
     >>
  @@ "anonymization" :> <<
       <<"Predefined:", " ", "Implement robust anonymization techniques for all sensitive data.">>,
       <<"Predefined:", " ",
         "Conduct a data inventory to identify all places where personal data is stored.">>,
       <<"Predefined:", " ", "Use encryption for data both at rest and in transit.">>
     >>
  @@ "policy_updates" :> <<
       <<"Predefined:", " ",
         "Establish a quarterly schedule for reviewing and updating privacy policies.">>,
       <<"Predefined:", " ",
         "Create a change management process for documenting updates to data practices.">>,
       <<"Predefined:", " ", "Implement a version control system for privacy documentation.">>
     >>
  @@ "data_subject_rights" :> <<
       <<"Predefined:", " ",
         "Develop a streamlined process for handling data subject access requests.">>,
       <<"Predefined:", " ",
         "Create self-service portals for users to access, modify, and delete their data.">>,
       <<"Predefined:", " ",
         "Ensure all data subject requests are processed within agreed timeframes.">>
     >>
  @@ "data_breach" :> <<
       <<"Predefined:", " ", "Implement automated breach detection systems.">>,
       <<"Predefined:", " ",
         "Create a response team and clear procedures for handling data breaches.">>,
       <<"Predefined:", " ",
         "Establish templates for notifying authorities and affected users within 72 hours.">>
     >>
  @@ "third_party" :> <<
       <<"Predefined:", " ", "Audit all third-party data processors for GDPR compliance.">>,
       <<"Predefined:", " ", "Update data processing agreements with all vendors.">>,
       <<"Predefined:", " ", "Implement regular compliance checks for third-party services.">>
     >>

(***************************************************************************)
(* The web scraper.  What the site serves is the environment's choice: a   *)
(* page is a record of what fetch_page and the lxml queries find in it.    *)
(***************************************************************************)

\* key_articles of get_key_gdpr_principles.
KeyArticles == <<5, 6, 7, 8, 9, 10, 11>>

\* updates[:3] in get_gdpr_requirements.
UpdateLimit == 3

\* articles[:5] in get_latest_updates.
ArticleLimit == 5

\* content[:200] in get_key_gdpr_principles.
SummaryLength == 200

Take(s, n) == SubSeq(s, 1, Min(n, Len(s)))

\* get_latest_updates: the entries of the recent-entries widget that carry a link,
\* or, when there is none, those of the first articles that carry a linked heading.
\* A failed fetch ("" from fetch_page) and a parse error both leave the list empty.
get_latest_updates(main) ==
  IF main.status # "page" THEN <<>>
  ELSE LET linked(items) == SelectSeq(items, LAMBDA it : it.link)
           entry(it) == [title |-> it.title, url |-> it.url, date |-> it.date]
           news == linked(main.news)
           arts == linked(Take(main.articles, ArticleLimit))
       IN IF news # <<>>
          THEN [i \in 1..Len(news) |-> entry(news[i])]
          ELSE [i \in 1..Len(arts) |-> entry(arts[i])]

\* get_article_content: title and content stay empty when the fetch fails, when
\* the page cannot be parsed, or when the page lacks the element.
get_article_content(article_number, page) ==
  IF page.status # "page"
  THEN [number |-> article_number, title |-> <<>>, content |-> <<>>]
  ELSE [number |-> article_number, title |-> page.title, content |-> page.content]

\* summary = content[:200], cut after its last full stop when rfind finds one
\* past the first position.
Summary(content) ==
  LET summary == Take(content, SummaryLength)
      dots == {i \in 1..Len(summary) : summary[i] = "."}
      end_of_sentence == IF dots = {} THEN -1 ELSE (CHOOSE i \in dots : \A j \in dots : j <= i) - 1
  IN IF end_of_sentence > 0 THEN SubSeq(summary, 1, end_of_sentence + 1) ELSE summary

RECURSIVE PrinciplesFrom(_, _)
PrinciplesFrom(i, articles) ==
  IF i > Len(KeyArticles) THEN <<>>
  ELSE LET article_info == get_article_content(KeyArticles[i], articles[KeyArticles[i]])
       IN (IF article_info.title # <<>> /\ article_info.content # <<>>
           THEN <<article_info.title \o <<": ">> \o Summary(article_info.content)>>
           ELSE <<>>)
          \o PrinciplesFrom(i + 1, articles)

\* get_key_gdpr_principles: one "title: summary" per key article that has both.
get_key_gdpr_principles(articles) == PrinciplesFrom(1, articles)

\* f"{title}" plus " (date)" when the entry has a date.
UpdateText(update) ==
  <<update.title>> \o (IF update.date # "" THEN <<" (", update.date, ")">> ELSE <<>>)

RECURSIVE JoinTexts(_, _)
\* sep.join(texts)
JoinTexts(texts, sep) ==
  IF texts = <<>> THEN <<>>
  ELSE IF Len(texts) = 1 THEN texts[1]
  ELSE texts[1] \o <<sep>> \o JoinTexts(Tail(texts), sep)

\* The scraper with a category lost from its action_templates literal.
ScraperRequirements_without_third_party(web) ==
  LET updates == get_latest_updates(web.main)
      principles == get_key_gdpr_principles(web.articles)
  IN [recent_changes |-> IF updates # <<>> THEN <<"Latest updates: ">> ELSE DefaultRecentChanges,
      last_updated |-> <<"today">>,
      key_requirements |-> IF principles # <<>> THEN principles ELSE DefaultKeyRequirements,
      common_weak_points |-> DefaultWeakPoints,
      action_templates |->
        [c \in CategorySet \ {"third_party"} |-> ScraperActionTemplates[c]]]

\* GDPRWebScraper.get_gdpr_requirements: the two category tables are literals; the
\* narrative and the reference list fall back to the predefined ones when the
\* site yields no update or no principle.  The dictionary has no is_live_data key.
ScraperRequirements(web) ==
  LET updates == get_latest_updates(web.main)
      top == Take(updates, UpdateLimit)
      principles == get_key_gdpr_principles(web.articles)
  IN [recent_changes |->
        IF updates # <<>>
        THEN <<"Latest updates: ">> \o JoinTexts([i \in 1..Len(top) |-> UpdateText(top[i])], "; ")
        ELSE DefaultRecentChanges,
      last_updated |-> <<"today">>,
      key_requirements |-> IF principles # <<>> THEN principles ELSE DefaultKeyRequirements,
      common_weak_points |-> DefaultWeakPoints,
      action_templates |-> ScraperActionTemplates]

(***************************************************************************)
(* The requirements snapshot of an analyzer.                               *)
(***************************************************************************)

\* The compiled-in snapshot both analyzers return when they do not use the scraper's.
FrozenSnapshot ==
  [is_live_data |-> FALSE,
   recent_changes |-> DefaultRecentChanges,
   key_requirements |-> DefaultKeyRequirements,
   common_weak_points |-> DefaultWeakPoints,
   action_templates |-> FrozenActionTemplates]

\* `req and req.get("key_requirements")`
Complete(req) ==
  /\ DOMAIN req # {}
  /\ "key_requirements" \in DOMAIN req
  /\ req.key_requirements # <<>>

\* The analyzers' get_gdpr_requirements: the scraper's dictionary, marked live,
\* when there is a scraper, its call returns and the result is complete; the
\* frozen snapshot otherwise.
get_gdpr_requirements(has_scraper, fetch) ==
  IF has_scraper /\ ~fetch.raises /\ Complete(ScraperRequirements(fetch.web))
  THEN ("is_live_data" :> TRUE) @@ ScraperRequirements(fetch.web)
  ELSE FrozenSnapshot

\* A refresh that merges the fetched dictionary into the held one
\* (self.gdpr_data.update(new_requirements)) instead of rebinding gdpr_data.
update_gdpr_requirements_merging(current, has_scraper, fetch) ==
  [gdpr_data |->
     IF has_scraper /\ ~fetch.raises /\ Complete(ScraperRequirements(fetch.web))
     THEN ScraperRequirements(fetch.web) @@ current
     ELSE current,
   returned |-> "None"]

\* The analyzers' update_gdpr_requirements: gdpr_data is rebound to the scraper's
\* dictionary as it is, or left alone; the method returns None on every path.
update_gdpr_requirements(current, has_scraper, fetch) ==
  [gdpr_data |->
     IF has_scraper /\ ~fetch.raises /\ Complete(ScraperRequirements(fetch.web))
     THEN ScraperRequirements(fetch.web)
     ELSE current,
   returned |-> "None"]

(***************************************************************************)
(* Keyword coverage.                                                       *)
(***************************************************************************)

\* self.compliance_keywords of the analyzer in use.
compliance_keywords(analyzer) ==
  IF analyzer = "fallback" THEN FallbackKeywords ELSE ReplicateKeywords

\* The coverage check with the keyword compared as written (keyword in
\* document_text_lower, without keyword.lower()).
keyword_analysis_keyword_as_written(keywords, document_text) ==
  LET document_text_lower == Lower(document_text)
  IN [category \in DOMAIN keywords |->
        \E i \in 1..Len(keywords[category]) :
           Contains(keywords[category][i], document_text_lower)]

\* The coverage check with all() in place of any().
keyword_analysis_all_keywords(keywords, document_text) ==
  LET document_text_lower == Lower(document_text)
  IN [category \in DOMAIN keywords |->
        \A i \in 1..Len(keywords[category]) :
           Contains(Lower(keywords[category][i]), document_text_lower)]

\* _keyword_analysis, and the same loop at the head of the rule-based
\* analyze_document: a category is covered when any of its keywords, lowered,
\* is in the lowered document.
keyword_analysis(keywords, document_text) ==
  LET document_text_lower == Lower(document_text)
  IN [category \in DOMAIN keywords |->
        \E i \in 1..Len(keywords[category]) :
           Contains(Lower(keywords[category][i]), document_text_lower)]

\* The pieces short documents are made of: a keyword in upper case, the halves of
\* a keyword, and words that complete a keyword only next to another piece.
DocFragments ==
  {<<"c","o","n">>,   \* "con",
   <<"s","e","n","t">>,   \* "sent",
   <<"p","e","r","s","o","n","a","l"," ","d","a","t","a"," ">>,   \* "personal data ",
   <<"D","S","A","R">>}   \* "DSAR"

\* Longer documents, taken whole: two that cover the six categories of the
\* rule-based lexicon (the second also names the 14-day timeline), one that
\* covers two categories of that lexicon only, one that names the timeline and
\* covers no category.
WholeDocuments ==
  {<<"D","S","A","R"," ","O","p","t","-","I","n"," ","r","e","g","u","l","a","r"," ","r","e","v","i","e","w"," ","e","n","c","r","y","p","t","i","o","n"," ","o","f"," ","d","a","t","a"," ","b","r","e","a","c","h"," ","b","y"," ","a"," ","v","e","n","d","o","r">>,   \* "DSAR Opt-In regular review encryption of data breach by a vendor"
   <<"C","o","n","s","e","n","t",":"," ","D","S","A","R"," ","i","n"," ","1","4"," ","d","a","y","s",";"," ","l","a","s","t"," ","u","p","d","a","t","e","d",";"," ","e","n","c","r","y","p","t","i","o","n",";"," ","7","2"," ","h","o","u","r","s",";"," ","v","e","n","d","o","r">>,   \* "Consent: DSAR in 14 days; last updated; encryption; 72 hours; vendor"
   <<"W","e"," ","r","e","v","i","e","w"," ","a","c","c","e","s","s"," ","r","i","g","h","t","s"," ","w","i","t","h","i","n"," ","f","o","u","r","t","e","e","n"," ","d","a","y","s">>,   \* "We review access rights within fourteen days"
   <<"R","e","p","l","i","e","s"," ","w","i","t","h","i","n"," ","1","4"," ","d","a","y","s">>}   \* "Replies within 14 days"

RECURSIVE Flatten(_)
\* The text made of the pieces in order.
Flatten(parts) == IF parts = <<>> THEN <<>> ELSE Head(parts) \o Flatten(Tail(parts))

RECURSIVE SeqsUpTo(_, _)
\* The sequences of at most n elements of S.
SeqsUpTo(S, n) ==
  IF n = 0 THEN {<<>>}
  ELSE LET shorter == SeqsUpTo(S, n - 1)
       IN shorter \cup {Append(s, x) : s \in shorter, x \in S}

\* A document as the sequence of its pieces.
DocParts == SeqsUpTo(DocFragments, MaxFrags) \cup {<<d>> : d \in WholeDocuments}

(***************************************************************************)
(* Findings.  A value the analyzers handle is a Python value: a record of  *)
(* its type k and its content v.  A string's content is its text.          *)
(***************************************************************************)

PyStr(text) == [k |-> "str", v |-> text]

\* [PyStr(t) for t in texts]
PyStrs(texts) == [i \in 1..Len(texts) |-> PyStr(texts[i])]

PyNone == [k |-> "none", v |-> <<>>]

PyBool(b) == [k |-> "bool", v |-> b]

PyNum(n) == [k |-> "num", v |-> n]

\* A list: the sequence of its items.
PyList(items) == [k |-> "list", v |-> items]

\* A dictionary: its entries [key, val] in insertion order, each key (a text) once.
PyDict(entries) == [k |-> "dict", v |-> entries]

\* bool(x)
Truthy(x) ==
  CASE x.k = "none" -> FALSE
    [] x.k = "bool" -> x.v
    [] x.k = "num" -> x.v # 0
    [] OTHER -> x.v # <<>>

DictHas(d, key) == \E i \in 1..Len(d.v) : d.v[i].key = key

\* d.get(key, default)
DictGet(d, key, default) ==
  IF DictHas(d, key) THEN d.v[CHOOSE i \in 1..Len(d.v) : d.v[i].key = key].val ELSE default

\* d[key] = val on the entries of d: a known key keeps its place.
DictSet(entries, key, val) ==
  IF \E i \in 1..Len(entries) : entries[i].key = key
  THEN [i \in 1..Len(entries) |->
          IF entries[i].key = key THEN [key |-> key, val |-> val] ELSE entries[i]]
  ELSE Append(entries, [key |-> key, val |-> val])

(***************************************************************************)
(* json.loads on a text.  The atoms of a response are the JSON punctuation *)
(* marks, the double quote, blanks and line ends, the literals, numbers,   *)
(* and words.  A string literal runs from a quote to the next quote        *)
(* (escapes are not modelled).                                             *)
(***************************************************************************)

SpaceAtoms == {" ", "\n"}

NumberAtoms == ("0" :> 0) @@ ("1" :> 1) @@ ("7" :> 7)

RECURSIVE SkipSpace(_, _)
SkipSpace(t, i) == IF i <= Len(t) /\ t[i] \in SpaceAtoms THEN SkipSpace(t, i + 1) ELSE i

ParseFail == [ok |-> FALSE, value |-> PyNone, next |-> 0]

Parsed(value, next) == [ok |-> TRUE, value |-> value, next |-> next]

\* A string literal opening at t[i].
ParseString(t, i) ==
  LET closing == {j \in (i + 1)..Len(t) : t[j] = "\""}
  IN IF closing = {} THEN ParseFail
     ELSE Only({Parsed(PyStr(SubSeq(t, i + 1, j - 1)), j + 1)
                : j \in {CHOOSE j \in closing : \A m \in closing : j <= m}})

RECURSIVE ParseValue(_, _)
RECURSIVE ParseElements(_, _, _)
RECURSIVE ParseMembers(_, _, _)
RECURSIVE AfterElement(_, _, _)
RECURSIVE AfterMember(_, _, _, _)
RECURSIVE AfterKey(_, _, _)

\* A JSON value starting at or after t[from].
ParseValue(t, from) ==
  Only({IF i > Len(t) THEN ParseFail
        ELSE CASE t[i] = "\"" -> ParseString(t, i)
               [] t[i] = "null" -> Parsed(PyNone, i + 1)
               [] t[i] = "true" -> Parsed(PyBool(TRUE), i + 1)
               [] t[i] = "false" -> Parsed(PyBool(FALSE), i + 1)
               [] t[i] \in DOMAIN NumberAtoms -> Parsed(PyNum(NumberAtoms[t[i]]), i + 1)
               [] t[i] = "[" ->
                    Only({IF j <= Len(t) /\ t[j] = "]" THEN Parsed(PyList(<<>>), j + 1)
                          ELSE ParseElements(t, j, <<>>)
                          : j \in {SkipSpace(t, i + 1)}})
               [] t[i] = "{" ->
                    Only({IF j <= Len(t) /\ t[j] = "}" THEN Parsed(PyDict(<<>>), j + 1)
                          ELSE ParseMembers(t, j, <<>>)
                          : j \in {SkipSpace(t, i + 1)}})
               [] OTHER -> ParseFail
        : i \in {SkipSpace(t, from)}})

\* What follows an item r of an array: "," and the next items, or "]".
AfterElement(t, r, acc) ==
  Only({IF j > Len(t) THEN ParseFail
        ELSE IF t[j] = "," THEN ParseElements(t, j + 1, items)
        ELSE IF t[j] = "]" THEN Parsed(PyList(items), j + 1)
        ELSE ParseFail
        : j \in {SkipSpace(t, r.next)}, items \in {Append(acc, r.value)}})

\* The items of an array after its "[" , acc the items read so far.
ParseElements(t, from, acc) ==
  Only({IF r.ok THEN AfterElement(t, r, acc) ELSE ParseFail : r \in {ParseValue(t, from)}})

\* What follows the value r of the member named key: "," and the next members,
\* or "}".  A key given twice keeps its last value.
AfterMember(t, key, r, acc) ==
  Only({IF j > Len(t) THEN ParseFail
        ELSE IF t[j] = "," THEN ParseMembers(t, j + 1, entries)
        ELSE IF t[j] = "}" THEN Parsed(PyDict(entries), j + 1)
        ELSE ParseFail
        : j \in {SkipSpace(t, r.next)}, entries \in {DictSet(acc, key, r.value)}})

\* What follows the name of a member: ":" and its value.
AfterKey(t, key, acc) ==
  Only({IF c > Len(t) \/ t[c] # ":" THEN ParseFail
        ELSE Only({IF r.ok THEN AfterMember(t, key.value.v, r, acc) ELSE ParseFail
                   : r \in {ParseValue(t, c + 1)}})
        : c \in {SkipSpace(t, key.next)}})

\* The members of an object after its "{", acc the entries read so far.
ParseMembers(t, from, acc) ==
  Only({IF i > Len(t) \/ t[i] # "\"" THEN ParseFail
        ELSE Only({IF key.ok THEN AfterKey(t, key, acc) ELSE ParseFail
                   : key \in {ParseString(t, i)}})
        : i \in {SkipSpace(t, from)}})

\* json.loads(text): the value, or a JSONDecodeError (ok = FALSE) when the text is
\* no JSON value or something other than blanks follows the value.
json_loads(text) ==
  Only({IF r.ok /\ SkipSpace(text, r.next) > Len(text)
        THEN [ok |-> TRUE, value |-> r.value]
        ELSE [ok |-> FALSE, value |-> PyNone]
        : r \in {ParseValue(text, 1)}})

(***************************************************************************)
(* The model-backed analyzer: the interpreter of the backend's response.   *)
(***************************************************************************)

\* max_length in _analyze_with_replicate.
max_length == 15000

\* key_requirements[:5] in the prompt.
PromptRequirements == 5

\* The document cut one character late.
Truncated_one_late(document_text) ==
  IF Len(document_text) > max_length + 1
  THEN SubSeq(document_text, 1, max_length + 1) \o <<".", ".", ".">>
  ELSE document_text

\* The document as it enters the prompt.
Truncated(document_text) ==
  IF Len(document_text) > max_length
  THEN SubSeq(document_text, 1, max_length) \o <<".", ".", ".">>
  ELSE document_text

\* What the prompt is built from.
Prompt(gdpr, document_text) ==
  [recent_changes |-> gdpr.recent_changes,
   key_requirements |-> Take(gdpr.key_requirements, PromptRequirements),
   document_text |-> Truncated(document_text)]

\* {"weak_points": [...], "actions": [...]}
Analysis(weak_points, actions) ==
  PyDict(<<[key |-> <<"weak_points">>, val |-> PyList(weak_points)],
           [key |-> <<"actions">>, val |-> PyList(actions)]>>)

\* The text of what replicate.run returned: the chunks of a list joined, or the
\* string itself.
ResponseText(response) ==
  IF response.k = "list" THEN Flatten([i \in 1..Len(response.v) |-> response.v[i].v])
  ELSE response.v

\* re.search(r'(\{.*\})', text, re.DOTALL): from the first "{" to the last "}"
\* after it.
BraceSpan(text) ==
  LET opens == {i \in 1..Len(text) : text[i] = "{"}
      first == CHOOSE i \in opens : \A j \in opens : i <= j
      closes == {i \in 1..Len(text) : text[i] = "}" /\ i > first}
      last == CHOOSE i \in closes : \A j \in closes : j <= i
  IN IF opens = {} \/ closes = {}
     THEN [found |-> FALSE, text |-> <<>>]
     ELSE [found |-> TRUE, text |-> SubSeq(text, first, last)]

\* The words of a response whose lower-case form contains "weak", "issue",
\* "action", "recommend".
WeakAtoms == {"weak", "Weak", "weak_points"}

IssueAtoms == {"issue", "Issues"}

ActionAtoms == {"action", "Actions", "actions"}

RecommendAtoms == {"recommend", "Recommendations"}

\* The colons after position s that are on the line of s.
SameLineColons(text, s) ==
  {c \in (s + 1)..Len(text) : text[c] = ":" /\ \A m \in (s + 1)..(c - 1) : text[m] # "\n"}

Least(S) == CHOOSE x \in S : \A y \in S : x <= y

Greatest(S) == CHOOSE x \in S : \A y \in S : y <= x

\* re.search(r'weak[^\n]*:(.*?)action', text, DOTALL | IGNORECASE): the leftmost
\* "weak" with a colon later on its line and an "action" after the colon; the
\* colon is the last such one, the group ends before the first "action" after it.
WeakSection(text) ==
  LET ends(c) == {e \in (c + 1)..Len(text) : text[e] \in ActionAtoms}
      colons(s) == {c \in SameLineColons(text, s) : ends(c) # {}}
      starts == {s \in 1..Len(text) : text[s] \in WeakAtoms /\ colons(s) # {}}
      c == Greatest(colons(Least(starts)))
  IN IF starts = {} THEN [found |-> FALSE, text |-> <<>>]
     ELSE [found |-> TRUE, text |-> SubSeq(text, c + 1, Least(ends(c)) - 1)]

\* re.search(r'action[^\n]*:(.*)', text, DOTALL | IGNORECASE): the leftmost
\* "action" with a colon later on its line; the group is all that follows the
\* last such colon.
ActionSection(text) ==
  LET starts == {s \in 1..Len(text) : text[s] \in ActionAtoms /\ SameLineColons(text, s) # {}}
      c == Greatest(SameLineColons(text, Least(starts)))
  IN IF starts = {} THEN [found |-> FALSE, text |-> <<>>]
     ELSE [found |-> TRUE, text |-> SubSeq(text, c + 1, Len(text))]

RECURSIVE SplitLines(_)
\* text.split('\n')
SplitLines(text) ==
  LET ends == {i \in 1..Len(text) : text[i] = "\n"}
  IN IF ends = {} THEN <<text>>
     ELSE <<SubSeq(text, 1, Least(ends) - 1)>>
            \o SplitLines(SubSeq(text, Least(ends) + 1, Len(text)))

RECURSIVE Strip(_)
\* text.strip()
Strip(text) ==
  IF text = <<>> THEN text
  ELSE IF Head(text) \in SpaceAtoms THEN Strip(Tail(text))
  ELSE IF text[Len(text)] \in SpaceAtoms THEN Strip(SubSeq(text, 1, Len(text) - 1))
  ELSE text

\* The stripped lines of a section that are not empty and do not start with "*".
SectionLines(section) ==
  LET lines == SplitLines(section)
      stripped == [i \in 1..Len(lines) |-> Strip(lines[i])]
  IN PyStrs(SelectSeq(stripped, LAMBDA line : line # <<>> /\ Head(line) # "*"))

\* The else branch of the parse: the sections found by the two patterns.
HeuristicAnalysis(text) ==
  LET weak == WeakSection(text)
      action == ActionSection(text)
      weak_points ==
        IF (\E i \in 1..Len(text) : text[i] \in WeakAtoms \cup IssueAtoms) /\ weak.found
        THEN SectionLines(weak.text) ELSE <<>>
      actions ==
        IF (\E i \in 1..Len(text) : text[i] \in ActionAtoms \cup RecommendAtoms) /\ action.found
        THEN SectionLines(action.text) ELSE <<>>
  IN Analysis(weak_points, actions)

ParseErrorAnalysis == Analysis(<<PyStr(<<"Error analyzing with LLM.">>)>>, <<>>)

\* The inner try of _analyze_with_replicate: the decoded brace span when there is
\* one, the heuristic split when there is none; a decoding error gives the fixed
\* parse-error finding.
InterpretResponse(response_text) ==
  Only({Only({IF json_match.found
              THEN Only({IF decoded.ok THEN decoded.value ELSE ParseErrorAnalysis
                         : decoded \in {json_loads(json_match.text)}})
              ELSE HeuristicAnalysis(text)
              : json_match \in {BraceSpan(text)}})
        : text \in {response_text}})

\* The interpreter keeping quiet about a failed call: no finding at all.
analyze_with_replicate_silent_on_error(loaded, gdpr, document_text, backend) ==
  IF ~loaded
  THEN Analysis(<<PyStr(<<"Replicate API not available. Using rule-based analysis only.">>)>>, <<>>)
  ELSE IF backend.raises THEN Analysis(<<>>, <<>>)
  ELSE InterpretResponse(ResponseText(backend.response))

\* The interpreter with a retry advice added to the finding of a failed call.
analyze_with_replicate_advising_retry(loaded, gdpr, document_text, backend) ==
  IF ~loaded
  THEN Analysis(<<PyStr(<<"Replicate API not available. Using rule-based analysis only.">>)>>, <<>>)
  ELSE IF backend.raises
  THEN Analysis(<<PyStr(<<"Error using Replicate API: ">> \o backend.error)>>,
                <<PyStr(<<"Retry the analysis">>)>>)
  ELSE InterpretResponse(ResponseText(backend.response))

\* _analyze_with_replicate: what the backend call raises becomes one weak point.
analyze_with_replicate(loaded, gdpr, document_text, backend) ==
  IF ~loaded
  THEN Analysis(<<PyStr(<<"Replicate API not available. Using rule-based analysis only.">>)>>, <<>>)
  ELSE IF backend.raises
  THEN Analysis(<<PyStr(<<"Error using Replicate API: ">> \o backend.error)>>, <<>>)
  ELSE InterpretResponse(ResponseText(backend.response))

(***************************************************************************)
(* The rule-based analyzer.                                                *)
(***************************************************************************)

FourteenDay == <<"1","4"," ","d","a","y">>   \* "14 day"

FourteenDayInWords == <<"f","o","u","r","t","e","e","n"," ","d","a","y">>   \* "fourteen day"

DsarWeakPoint == <<"Missing updated timeline for Data Subject Access Requests (now 14 days)">>

DsarAction == <<"Update policy to reflect the new 14-day timeline for responding to DSARs">>

RecentChangesPrefix == "Recent GDPR changes to address: "

KeyRequirementsHeader == <<"Ensure all key GDPR requirements are met, including:">>

\* The covered categories reported as the uncovered ones.
Uncovered_inverted(covered) == SelectSeq(Categories, LAMBDA c : covered[c])

\* The categories not covered, in declaration order.
Uncovered(covered) == SelectSeq(Categories, LAMBDA c : ~covered[c])

\* The loop over the categories with only the first template entry appended.
RuleActions_first_entry_only(gdpr, uncovered) ==
  [i \in 1..Len(uncovered) |-> gdpr.action_templates[uncovered[i]][1]]

\* The weak point of every uncovered category, in order.
RuleWeakPoints(gdpr, uncovered) ==
  [i \in 1..Len(uncovered) |-> gdpr.common_weak_points[uncovered[i]]]

\* Every template entry of every uncovered category, in order.
RuleActions(gdpr, uncovered) ==
  Flatten([i \in 1..Len(uncovered) |-> gdpr.action_templates[uncovered[i]]])

\* The plan with the header and the lines per key requirement added even when
\* there is no action.
FallbackActionPlan_footer_always(gdpr, actions) ==
  LET with_changes == IF actions # <<>>
                      THEN <<<<RecentChangesPrefix>> \o gdpr.recent_changes>> \o actions
                      ELSE actions
  IN with_changes \o <<KeyRequirementsHeader>>
       \o [i \in 1..Len(gdpr.key_requirements) |-> <<"- ">> \o gdpr.key_requirements[i]]

\* The plan with only the header behind the actions, no line per key requirement.
FallbackActionPlan_header_only(gdpr, actions) ==
  LET with_changes == IF actions # <<>>
                      THEN <<<<RecentChangesPrefix>> \o gdpr.recent_changes>> \o actions
                      ELSE actions
  IN IF with_changes # <<>> THEN with_changes \o <<KeyRequirementsHeader>> ELSE with_changes

\* The end of analyze_document of the rule-based analyzer: around a plan that is
\* not empty, the recent-changes entry in front, the header and one line per key
\* requirement behind, the texts as the snapshot holds them.
FallbackActionPlan(gdpr, actions) ==
  LET with_changes == IF actions # <<>>
                      THEN <<<<RecentChangesPrefix>> \o gdpr.recent_changes>> \o actions
                      ELSE actions
  IN IF with_changes # <<>>
     THEN with_changes \o <<KeyRequirementsHeader>>
            \o [i \in 1..Len(gdpr.key_requirements) |-> <<"- ">> \o gdpr.key_requirements[i]]
     ELSE with_changes

\* GDPRFallbackAnalyzer.analyze_document.  Indexing a table of the snapshot by a
\* category it lacks raises KeyError.
fallback_analyze_document(gdpr, document_text) ==
  LET document_text_lower == Lower(document_text)
      uncovered == Uncovered(keyword_analysis(FallbackKeywords, document_text))
      missing == \E c \in Range(uncovered) :
                    c \notin DOMAIN gdpr.common_weak_points \/ c \notin DOMAIN gdpr.action_templates
      no_timeline == /\ ~Contains(FourteenDay, document_text_lower)
                     /\ ~Contains(FourteenDayInWords, document_text_lower)
      weak_points == RuleWeakPoints(gdpr, uncovered)
                       \o (IF no_timeline THEN <<DsarWeakPoint>> ELSE <<>>)
      actions == RuleActions(gdpr, uncovered) \o (IF no_timeline THEN <<DsarAction>> ELSE <<>>)
  IN IF missing
     THEN [raised |-> TRUE, error |-> "KeyError", weak_points |-> <<>>,
           actions |-> <<>>, action_plan |-> <<>>]
     ELSE [raised |-> FALSE, error |-> "",
           weak_points |-> PyStrs(weak_points), actions |-> PyStrs(actions),
           action_plan |-> PyStrs(FallbackActionPlan(gdpr, actions))]

\* for x in value: the items of a list, the characters of a string, the keys of
\* a dict; anything else raises TypeError.
Iterate(value) ==
  CASE value.k = "list" -> [ok |-> TRUE, items |-> value.v]
    [] value.k = "str" -> [ok |-> TRUE, items |-> [i \in 1..Len(value.v) |-> PyStr(<<value.v[i]>>)]]
    [] value.k = "dict" -> [ok |-> TRUE, items |-> [i \in 1..Len(value.v) |-> PyStr(value.v[i].key)]]
    [] OTHER -> [ok |-> FALSE, items |-> <<>>]

\* The number a bool or a number compares as.
AsNumber(value) == IF value.k = "bool" THEN (IF value.v THEN 1 ELSE 0) ELSE value.v

RECURSIVE PyEq(_, _)
\* a == b
PyEq(a, b) ==
  IF a.k \in {"bool", "num"} /\ b.k \in {"bool", "num"} THEN AsNumber(a) = AsNumber(b)
  ELSE IF a.k # b.k THEN FALSE
  ELSE IF a.k = "list"
  THEN Len(a.v) = Len(b.v) /\ \A i \in 1..Len(a.v) : PyEq(a.v[i], b.v[i])
  ELSE IF a.k = "dict"
  THEN /\ Len(a.v) = Len(b.v)
       /\ \A i \in 1..Len(a.v) : \E j \in 1..Len(b.v) :
            a.v[i].key = b.v[j].key /\ PyEq(a.v[i].val, b.v[j].val)
  ELSE a.v = b.v

\* set(d.items()) raises TypeError when a value of d is a list or a dict.
ItemsHashable(d) == \A i \in 1..Len(d.v) : d.v[i].val.k \notin {"list", "dict"}

\* set(point.items()).issubset(set(existing.items()))
ItemsSubset(point, existing) ==
  \A i \in 1..Len(point.v) : \E j \in 1..Len(existing.v) :
    point.v[i].key = existing.v[j].key /\ PyEq(point.v[i].val, existing.v[j].val)

RECURSIVE SubsetScan(_, _, _)
\* any(set(point.items()).issubset(set(existing.items())) for existing in kept
\*     if isinstance(existing, dict) and isinstance(point, dict)), from kept[i] on:
\* "yes", "no", or "raise" when an item set cannot be built.
SubsetScan(point, kept, i) ==
  IF i > Len(kept) THEN "no"
  ELSE IF kept[i].k # "dict" \/ point.k # "dict" THEN SubsetScan(point, kept, i + 1)
  ELSE IF ~ItemsHashable(point) \/ ~ItemsHashable(kept[i]) THEN "raise"
  ELSE IF ItemsSubset(point, kept[i]) THEN "yes"
  ELSE SubsetScan(point, kept, i + 1)

RECURSIVE AddWeakPoints(_, _, _)
\* The loop over the model's weak points, from points[i] on.
AddWeakPoints(points, i, kept) ==
  IF i > Len(points) THEN [raised |-> FALSE, items |-> kept]
  ELSE IF ~Truthy(points[i]) THEN AddWeakPoints(points, i + 1, kept)
  ELSE Only({IF scan = "raise" THEN [raised |-> TRUE, items |-> kept]
             ELSE Only({AddWeakPoints(points, i + 1, more)
                        : more \in {IF scan = "no" THEN Append(kept, points[i]) ELSE kept}})
             : scan \in {SubsetScan(points[i], kept, 1)}})

RECURSIVE AddActions(_, _, _)
\* The loop over the model's actions, from actions[i] on.
AddActions(actions, i, kept) ==
  IF i > Len(actions) THEN kept
  ELSE Only({AddActions(actions, i + 1, more)
             : more \in {IF Truthy(actions[i]) /\ \A j \in 1..Len(kept) : ~PyEq(actions[i], kept[j])
                         THEN Append(kept, actions[i]) ELSE kept}})

RECURSIVE Repr(_)
\* repr(value)
Repr(value) ==
  CASE value.k = "str" -> <<"'">> \o value.v \o <<"'">>
    [] value.k = "none" -> <<"None">>
    [] value.k = "bool" -> IF value.v THEN <<"True">> ELSE <<"False">>
    [] value.k = "num" -> <<ToString(value.v)>>
    [] value.k = "list" ->
         <<"[">> \o JoinTexts([i \in 1..Len(value.v) |-> Repr(value.v[i])], ", ") \o <<"]">>
    [] value.k = "dict" ->
         <<"{">> \o JoinTexts([i \in 1..Len(value.v) |->
                                 Repr(PyStr(value.v[i].key)) \o <<": ">> \o Repr(value.v[i].val)],
                              ", ") \o <<"}">>

\* str(value)
Str(value) == IF value.k = "str" THEN value.v ELSE Repr(value)

RECURSIVE JsonDumpsEqual(_, _)
\* json.dumps(a, sort_keys=True) == json.dumps(b, sort_keys=True)
JsonDumpsEqual(a, b) ==
  IF a.k # b.k THEN FALSE
  ELSE IF a.k = "list"
  THEN Len(a.v) = Len(b.v) /\ \A i \in 1..Len(a.v) : JsonDumpsEqual(a.v[i], b.v[i])
  ELSE IF a.k = "dict"
  THEN /\ Len(a.v) = Len(b.v)
       /\ \A i \in 1..Len(a.v) : \E j \in 1..Len(b.v) :
            a.v[i].key = b.v[j].key /\ JsonDumpsEqual(a.v[i].val, b.v[j].val)
  ELSE a.v = b.v

RECURSIVE Unique(_, _, _)
\* "Remove duplicates while preserving order", from items[i] on.
Unique(items, i, unique) ==
  IF i > Len(items) THEN unique
  ELSE LET item == items[i]
           keep == IF item.k = "dict"
                   THEN \A j \in 1..Len(unique) :
                          unique[j].k = "dict" => ~JsonDumpsEqual(unique[j], item)
                   ELSE Truthy(item) /\ \A j \in 1..Len(unique) : Str(item) # Str(unique[j])
       IN Only({Unique(items, i + 1, more)
                : more \in {IF keep THEN Append(unique, item) ELSE unique}})

\* text[len("Predefined:"):].strip() when text starts with "Predefined:".
WithoutPredefined(text) ==
  IF text # <<>> /\ Head(text) = "Predefined:" THEN Strip(Tail(text)) ELSE text

\* The rule-based findings of the block that follows "if not weak_points:".  The
\* block is inside a string literal: the coverage is computed and nothing is added.
KeywordFallback(gdpr, keyword_results) == [weak_points |-> <<>>, actions |-> <<>>]

\* The plan with the duplicates removed after the entries around it are added.
ReplicateActionPlan_then_unique(gdpr, unique_action_plan) ==
  LET with_changes ==
        IF unique_action_plan # <<>> /\ gdpr.recent_changes # <<>>
        THEN <<PyStr(<<RecentChangesPrefix>> \o WithoutPredefined(gdpr.recent_changes))>>
               \o unique_action_plan
        ELSE unique_action_plan
  IN IF with_changes # <<>> /\ gdpr.key_requirements # <<>>
     THEN Unique(with_changes \o <<PyStr(KeyRequirementsHeader)>>
                   \o [i \in 1..Len(gdpr.key_requirements) |->
                         PyStr(<<"- ">> \o WithoutPredefined(gdpr.key_requirements[i]))],
                 1, <<>>)
     ELSE with_changes

\* The plan with the footer added even when there is no action.
ReplicateActionPlan_footer_always(gdpr, unique_action_plan) ==
  LET with_changes ==
        IF unique_action_plan # <<>> /\ gdpr.recent_changes # <<>>
        THEN <<PyStr(<<RecentChangesPrefix>> \o WithoutPredefined(gdpr.recent_changes))>>
               \o unique_action_plan
        ELSE unique_action_plan
  IN with_changes \o <<PyStr(KeyRequirementsHeader)>>
       \o [i \in 1..Len(gdpr.key_requirements) |->
             PyStr(<<"- ">> \o WithoutPredefined(gdpr.key_requirements[i]))]

\* The plan with the recent-changes entry appended instead of inserted in front.
ReplicateActionPlan_changes_appended(gdpr, unique_action_plan) ==
  LET with_changes ==
        IF unique_action_plan # <<>> /\ gdpr.recent_changes # <<>>
        THEN unique_action_plan
               \o <<PyStr(<<RecentChangesPrefix>> \o WithoutPredefined(gdpr.recent_changes))>>
        ELSE unique_action_plan
  IN IF with_changes # <<>> /\ gdpr.key_requirements # <<>>
     THEN with_changes \o <<PyStr(KeyRequirementsHeader)>>
            \o [i \in 1..Len(gdpr.key_requirements) |->
                  PyStr(<<"- ">> \o WithoutPredefined(gdpr.key_requirements[i]))]
     ELSE with_changes

\* The end of analyze_document of the model-backed analyzer: around a plan that
\* is not empty, the recent-changes entry in front, the header and one line per
\* key requirement behind, the "Predefined:" tag of a text removed.
ReplicateActionPlan(gdpr, unique_action_plan) ==
  LET with_changes ==
        IF unique_action_plan # <<>> /\ gdpr.recent_changes # <<>>
        THEN <<PyStr(<<RecentChangesPrefix>> \o WithoutPredefined(gdpr.recent_changes))>>
               \o unique_action_plan
        ELSE unique_action_plan
  IN IF with_changes # <<>> /\ gdpr.key_requirements # <<>>
     THEN with_changes \o <<PyStr(KeyRequirementsHeader)>>
            \o [i \in 1..Len(gdpr.key_requirements) |->
                  PyStr(<<"- ">> \o WithoutPredefined(gdpr.key_requirements[i]))]
     ELSE with_changes

\* analyze_document of the model-backed analyzer from the interpreted response on:
\* the two loops over its fields, the removal of duplicates, the entries added
\* around a plan that is not empty.
MergeFindings(loaded, gdpr, document_text, llm_analysis) ==
  LET points == Iterate(DictGet(llm_analysis, <<"weak_points">>, PyList(<<>>)))
      actions == Iterate(DictGet(llm_analysis, <<"actions">>, PyList(<<>>)))
  IN Only({
    LET raised == loaded /\ (~points.ok \/ added.raised \/ ~actions.ok)
        model_actions ==
          IF loaded /\ actions.ok THEN AddActions(actions.items, 1, <<>>) ELSE <<>>
        fallback ==
          IF added.items = <<>>
          THEN KeywordFallback(gdpr, keyword_analysis(ReplicateKeywords, document_text))
          ELSE [weak_points |-> <<>>, actions |-> <<>>]
        weak_points == Unique(added.items \o PyStrs(fallback.weak_points), 1, <<>>)
    IN Only({
      IF raised
      THEN [raised |-> TRUE, error |-> "TypeError", weak_points |-> <<>>,
            actions |-> <<>>, action_plan |-> <<>>]
      ELSE [raised |-> FALSE, error |-> "", weak_points |-> weak_points,
            actions |-> unique_action_plan,
            action_plan |-> ReplicateActionPlan(gdpr, unique_action_plan)]
      : unique_action_plan \in {Unique(model_actions \o PyStrs(fallback.actions), 1, <<>>)}})
    : added \in {IF loaded /\ points.ok THEN AddWeakPoints(points.items, 1, <<>>)
                 ELSE [raised |-> FALSE, items |-> <<>>]}})

\* GDPRReplicateAnalyzer.analyze_document.
replicate_analyze_document(loaded, gdpr, document_text, backend) ==
  Only({MergeFindings(loaded, gdpr, document_text, llm_analysis)
        : llm_analysis \in {analyze_with_replicate(loaded, gdpr, document_text, backend)}})

(***************************************************************************)
(* What the environment can serve.                                         *)
(***************************************************************************)

ErrorPage == [status |-> "error"]

UnparseablePage == [status |-> "unparseable"]

NewsItems ==
  <<[link |-> TRUE, title |-> "EDPB guidelines", url |-> "u1", date |-> "2025-03-01"],
    [link |-> FALSE, title |-> "", url |-> "", date |-> ""],
    [link |-> TRUE, title |-> "Fine issued", url |-> "u2", date |-> ""],
    [link |-> TRUE, title |-> "Court ruling", url |-> "u3", date |-> "2025-01-15"],
    [link |-> TRUE, title |-> "Older entry", url |-> "u4", date |-> "2024-12-01"]>>

ArticleItems ==
  <<[link |-> TRUE, title |-> "Consent article", url |-> "u5", date |-> ""]>>

MainPages ==
  {ErrorPage, UnparseablePage,
   [status |-> "page", news |-> <<>>, articles |-> <<>>],
   [status |-> "page", news |-> NewsItems, articles |-> ArticleItems],
   [status |-> "page", news |-> <<>>, articles |-> ArticleItems]}

ArticlePage(n) ==
  [status |-> "page",
   title |-> <<"Art. ", ToString(n), " GDPR">>,
   content |-> <<"Personal data shall be processed lawfully", ".", " It shall be">>]

KeyArticleSet == Range(KeyArticles)

ArticleWebs ==
  {[n \in KeyArticleSet |-> ErrorPage],
   [n \in KeyArticleSet |-> IF n = 5 THEN ArticlePage(n) ELSE ErrorPage],
   [n \in KeyArticleSet |->
      CASE n = 5 -> ArticlePage(n)
        [] n = 6 -> UnparseablePage
        [] n = 7 -> [status |-> "page", title |-> <<>>, content |-> <<"text">>]
        [] n = 8 -> [status |-> "page", title |-> <<"Art. 8 GDPR">>, content |-> <<"No full stop">>]
        [] OTHER -> ErrorPage]}

\* One call of scraper.get_gdpr_requirements: it raises, or it runs on what the
\* site serves.
FetchOutcomes ==
  {[raises |-> TRUE, web |-> [main |-> ErrorPage, articles |-> [n \in KeyArticleSet |-> ErrorPage]]]}
  \cup {[raises |-> FALSE, web |-> [main |-> m, articles |-> a]] : m \in MainPages, a \in ArticleWebs}

\* The responses of the backend.

\* {"weak_points": ["No consent"], "actions": ["Add consent"]}: a well-formed analysis
ValidAnalysisText ==
  <<"{", "\"", "weak_points", "\"", ":", " ", "[", "\"", "No", " ", "consent", "\"", "]", ",",
    " ", "\"", "actions", "\"", ":", " ", "[", "\"", "Add", " ", "consent", "\"", "]", "}">>

\* Sure: {"weak_points": ["No consent", "No consent", ""], "actions": ["Add consent", "Add
\* consent"]}\n: text around the object, repeated and empty entries
WrappedAnalysisText ==
  <<"Sure", ":", " ", "{", "\"", "weak_points", "\"", ":", " ", "[", "\"", "No", " ", "consent",
    "\"", ",", " ", "\"", "No", " ", "consent", "\"", ",", " ", "\"", "\"", "]", ",", " ", "\"",
    "actions", "\"", ":", " ", "[", "\"", "Add", " ", "consent", "\"", ",", " ", "\"", "Add",
    " ", "consent", "\"", "]", "}", "\n">>

\* {"weak_points": [], "actions": []}: the model finds nothing
NoFindingsText ==
  <<"{", "\"", "weak_points", "\"", ":", " ", "[", "]", ",", " ", "\"", "actions", "\"", ":",
    " ", "[", "]", "}">>

\* {"weak_points": [], "actions": ["Add consent"]}: actions without weak points
ActionsOnlyText ==
  <<"{", "\"", "weak_points", "\"", ":", " ", "[", "]", ",", " ", "\"", "actions", "\"", ":",
    " ", "[", "\"", "Add", " ", "consent", "\"", "]", "}">>

\* {"weak_points": null, "actions": []}: weak_points is null
NullWeakPointsText ==
  <<"{", "\"", "weak_points", "\"", ":", " ", "null", ",", " ", "\"", "actions", "\"", ":", " ",
    "[", "]", "}">>

\* {"actions": ["Add consent"]}: weak_points is missing
MissingWeakPointsText ==
  <<"{", "\"", "actions", "\"", ":", " ", "[", "\"", "Add", " ", "consent", "\"", "]", "}">>

\* {"weak_points": ["No consent"]}: actions is missing
MissingActionsText ==
  <<"{", "\"", "weak_points", "\"", ":", " ", "[", "\"", "No", " ", "consent", "\"", "]", "}">>

\* {"weak_points": 7, "actions": []}: weak_points is a number
NumberWeakPointsText ==
  <<"{", "\"", "weak_points", "\"", ":", " ", "7", ",", " ", "\"", "actions", "\"", ":", " ",
    "[", "]", "}">>

\* {"weak_points": "a b", "actions": {"a": 0}}: weak_points is a string, actions an object
StringWeakPointsText ==
  <<"{", "\"", "weak_points", "\"", ":", " ", "\"", "a", " ", "b", "\"", ",", " ", "\"",
    "actions", "\"", ":", " ", "{", "\"", "a", "\"", ":", " ", "0", "}", "}">>

\* {"weak_points": [{"issue": "x", "area": "y"}, {"issue": "x"}, {"area": "y", "issue": "x"}],
\* "actions": [{"do": "z"}, {"do": "z"}]}: records, a wider one before a narrower one
RecordsWiderFirstText ==
  <<"{", "\"", "weak_points", "\"", ":", " ", "[", "{", "\"", "issue", "\"", ":", " ", "\"", "x",
    "\"", ",", " ", "\"", "area", "\"", ":", " ", "\"", "y", "\"", "}", ",", " ", "{", "\"",
    "issue", "\"", ":", " ", "\"", "x", "\"", "}", ",", " ", "{", "\"", "area", "\"", ":", " ",
    "\"", "y", "\"", ",", " ", "\"", "issue", "\"", ":", " ", "\"", "x", "\"", "}", "]", ",",
    " ", "\"", "actions", "\"", ":", " ", "[", "{", "\"", "do", "\"", ":", " ", "\"", "z", "\"",
    "}", ",", " ", "{", "\"", "do", "\"", ":", " ", "\"", "z", "\"", "}", "]", "}">>

\* {"weak_points": [{"issue": "x"}, {"issue": "x", "area": "y"}], "actions": []}: records, a
\* narrower one before a wider one
RecordsNarrowerFirstText ==
  <<"{", "\"", "weak_points", "\"", ":", " ", "[", "{", "\"", "issue", "\"", ":", " ", "\"", "x",
    "\"", "}", ",", " ", "{", "\"", "issue", "\"", ":", " ", "\"", "x", "\"", ",", " ", "\"",
    "area", "\"", ":", " ", "\"", "y", "\"", "}", "]", ",", " ", "\"", "actions", "\"", ":", " ",
    "[", "]", "}">>

\* {"weak_points": [{"issue": "x", "refs": ["a"]}, {"issue": "y", "refs": ["b"]}], "actions":
\* []}: two records that hold a list
NestedRecordsText ==
  <<"{", "\"", "weak_points", "\"", ":", " ", "[", "{", "\"", "issue", "\"", ":", " ", "\"", "x",
    "\"", ",", " ", "\"", "refs", "\"", ":", " ", "[", "\"", "a", "\"", "]", "}", ",", " ", "{",
    "\"", "issue", "\"", ":", " ", "\"", "y", "\"", ",", " ", "\"", "refs", "\"", ":", " ", "[",
    "\"", "b", "\"", "]", "}", "]", ",", " ", "\"", "actions", "\"", ":", " ", "[", "]", "}">>

\* {"weak_points": [{"issue": "x", "refs": ["a"]}], "actions": [["a"], {"n": {"m": null}}]}: one
\* record that holds a list, nested actions
SingleNestedRecordText ==
  <<"{", "\"", "weak_points", "\"", ":", " ", "[", "{", "\"", "issue", "\"", ":", " ", "\"", "x",
    "\"", ",", " ", "\"", "refs", "\"", ":", " ", "[", "\"", "a", "\"", "]", "}", "]", ",", " ",
    "\"", "actions", "\"", ":", " ", "[", "[", "\"", "a", "\"", "]", ",", " ", "{", "\"", "n",
    "\"", ":", " ", "{", "\"", "m", "\"", ":", " ", "null", "}", "}", "]", "}">>

\* {"weak_points": ["No consent"], "actions": null}: actions is null
NullActionsText ==
  <<"{", "\"", "weak_points", "\"", ":", " ", "[", "\"", "No", " ", "consent", "\"", "]", ",",
    " ", "\"", "actions", "\"", ":", " ", "null", "}">>

\* {"weak_points": [true, 1, 7, "7"], "actions": [true, 1, 0, false]}: numbers and booleans as
\* entries
ScalarsText ==
  <<"{", "\"", "weak_points", "\"", ":", " ", "[", "true", ",", " ", "1", ",", " ", "7", ",",
    " ", "\"", "7", "\"", "]", ",", " ", "\"", "actions", "\"", ":", " ", "[", "true", ",", " ",
    "1", ",", " ", "0", ",", " ", "false", "]", "}">>

\* {"weak_points": [No consent]}: braces around what is no JSON
BareWordsText ==
  <<"{", "\"", "weak_points", "\"", ":", " ", "[", "No", " ", "consent", "]", "}">>

\* {"weak_points": []} and {"actions": []}: two objects in one text
TwoObjectsText ==
  <<"{", "\"", "weak_points", "\"", ":", " ", "[", "]", "}", " ", "and", " ", "{", "\"",
    "actions", "\"", ":", " ", "[", "]", "}">>

\* Weak points:\n- No consent\n* skipped\n\nActions:\n- Add consent \n: headed sections without
\* an object
HeadingsText ==
  <<"Weak", " ", "points", ":", "\n", "-", " ", "No", " ", "consent", "\n", "*", " ", "skipped",
    "\n", "\n", "Actions", ":", "\n", "-", " ", "Add", " ", "consent", " ", "\n">>

\* The document looks compliant.: neither an object nor sections
PlainTextText ==
  <<"The", " ", "document", " ", "looks", " ", "compliant.">>

\* : an empty response
EmptyTextText ==
  <<>>

\* {"weak_points": ["No consent"], "actions": ["Recent GDPR changes to address: As of
\* 2025, ...", "Add consent", "Ensure all key GDPR requirements are met, including:",
\* "- Data Minimization: Collect only the necessary data."]}: actions that read as the
\* entries analyze_document adds around the plan on the predefined texts
PlanEchoText ==
  <<"{", "\"", "weak_points", "\"", ":", " ", "[", "\"", "No", " ", "consent", "\"", "]", ",",
    " ", "\"", "actions", "\"", ":", " ", "[", "\"", RecentChangesPrefix>>
    \o DefaultRecentChanges
    \o <<"\"", ",", " ", "\"", "Add", " ", "consent", "\"", ",", " ", "\"">>
    \o KeyRequirementsHeader
    \o <<"\"", ",", " ", "\"", "- ">>
    \o WithoutPredefined(DefaultKeyRequirements[1])
    \o <<"\"", "]", "}">>

\* The same kind of analysis delivered in chunks.
ChunkedResponse ==
  PyList(<<PyStr(<<"{", "\"", "weak_points", "\"", ":", " ", "[">>),
           PyStr(<<"\"", "No", " ", "consent", "\"">>),
           PyStr(<<"]", ",", " ", "\"", "actions", "\"", ":", " ", "[", "]", "}">>)>>)

ResponseTexts ==
  {ValidAnalysisText, WrappedAnalysisText, NoFindingsText, ActionsOnlyText,
   NullWeakPointsText, MissingWeakPointsText, MissingActionsText, NumberWeakPointsText,
   StringWeakPointsText, RecordsWiderFirstText, RecordsNarrowerFirstText, NestedRecordsText,
   SingleNestedRecordText, NullActionsText, ScalarsText, BareWordsText,
   TwoObjectsText, HeadingsText, PlainTextText, EmptyTextText, PlanEchoText}

\* What a call of the backend can do: raise, or return a text or a list of chunks.
Raising(error) == [raises |-> TRUE, error |-> error, response |-> PyNone]

Returning(response) == [raises |-> FALSE, error |-> <<>>, response |-> response]

BackendOutcomes ==
  {Raising(<<"timed out">>), Raising(<<>>), Returning(ChunkedResponse)}
    \cup {Returning(PyStr(text)) : text \in ResponseTexts}

\* The documents given to the model-backed analyzer.
ModelDocuments == {<<>>} \cup WholeDocuments

(***************************************************************************)
(* The application: the score shown for the weak points of an analysis.    *)
(***************************************************************************)

Max(a, b) == IF a > b THEN a ELSE b

\* The score without its floor.
compliance_score_without_floor(weak_points) ==
  IF weak_points # <<>> THEN 100 - (Len(weak_points) * 15) ELSE 100

\* compliance_score in main.
compliance_score(weak_points) ==
  IF weak_points # <<>> THEN Max(10, 100 - (Len(weak_points) * 15)) ELSE 100

(***************************************************************************)
(* State.                                                                  *)
(***************************************************************************)
VARIABLES
  kind,          \* the class of the analyzer in use: "none", "replicate", "fallback"
  scraper,       \* self.scraper is set
  model_loaded,  \* self.model_loaded
  gdpr_data,     \* self.gdpr_data
  call           \* the operation in progress or just returned: arguments and result

vars == <<kind, scraper, model_loaded, gdpr_data, call>>

Idle == [op |-> "idle"]

NoData == [none |-> TRUE]

Init ==
  /\ kind = "none"
  /\ scraper = FALSE
  /\ model_loaded = FALSE
  /\ gdpr_data = NoData
  /\ call = Idle

\* GDPRReplicateAnalyzer(api_token, use_web_scraper): the token comes from the
\* argument or from the environment variable.
NewReplicateAnalyzer ==
  \E has_token \in BOOLEAN, use_web_scraper \in BOOLEAN, fetch \in FetchOutcomes :
    /\ kind = "none"
    /\ kind' = "replicate"
    /\ scraper' = use_web_scraper
    /\ model_loaded' = has_token
    /\ gdpr_data' = get_gdpr_requirements(use_web_scraper, fetch)
    /\ call' = [op |-> "construct", by |-> "GDPRReplicateAnalyzer",
                use_web_scraper |-> use_web_scraper, fetch |-> fetch,
                scrapes |-> IF use_web_scraper THEN 1 ELSE 0, raised |-> FALSE]

\* get_gdpr_analyzer(use_replicate, api_token, use_web_scraper): the model-backed
\* analyzer is built without the use_web_scraper argument and kept when it has a
\* token; otherwise a rule-based analyzer is built, which always makes a scraper.
get_gdpr_analyzer ==
  \E use_replicate \in BOOLEAN, has_token \in BOOLEAN, use_web_scraper \in BOOLEAN,
     first \in FetchOutcomes, second \in FetchOutcomes :
    /\ kind = "none"
    /\ IF use_replicate /\ has_token
       THEN /\ kind' = "replicate"
            /\ model_loaded' = TRUE
            /\ gdpr_data' = get_gdpr_requirements(TRUE, first)
            /\ call' = [op |-> "construct", by |-> "get_gdpr_analyzer",
                        use_web_scraper |-> use_web_scraper, fetch |-> first,
                        scrapes |-> 1, raised |-> FALSE]
       ELSE /\ kind' = "fallback"
            /\ model_loaded' = FALSE
            /\ gdpr_data' = get_gdpr_requirements(TRUE, second)
            /\ call' = [op |-> "construct", by |-> "get_gdpr_analyzer",
                        use_web_scraper |-> use_web_scraper, fetch |-> second,
                        scrapes |-> IF use_replicate THEN 2 ELSE 1, raised |-> FALSE]
    /\ scraper' = TRUE

\* analyzer.update_gdpr_requirements()
UpdateGdprRequirements ==
  \E fetch \in FetchOutcomes :
    /\ kind # "none"
    /\ call = Idle
    /\ LET r == update_gdpr_requirements(gdpr_data, scraper, fetch)
       IN /\ gdpr_data' = r.gdpr_data
          /\ call' = [op |-> "update", before |-> gdpr_data, fetch |-> fetch,
                      returned |-> r.returned, raised |-> FALSE]
    /\ UNCHANGED <<kind, scraper, model_loaded>>

\* analyzer.analyze_document(document_text) on the rule-based analyzer, and the
\* score the application shows for its result (none, here 0, when it raised).
AnalyzeDocumentFallback ==
  \E parts \in DocParts :
    /\ kind = "fallback"
    /\ call = Idle
    /\ LET r == fallback_analyze_document(gdpr_data, Flatten(parts))
       IN call' = [op |-> "analyze", document_text |-> Flatten(parts),
                   raised |-> r.raised, error |-> r.error, weak_points |-> r.weak_points,
                   actions |-> r.actions, action_plan |-> r.action_plan,
                   compliance_score |-> IF r.raised THEN 0 ELSE compliance_score(r.weak_points)]
    /\ UNCHANGED <<kind, scraper, model_loaded, gdpr_data>>

\* analyzer.analyze_document(document_text) on the model-backed analyzer, and the
\* score the application shows for its result (none, here 0, when it raised); the
\* backend is called only when a token was given.
AnalyzeDocumentReplicate ==
  \E document_text \in ModelDocuments, backend \in BackendOutcomes :
    /\ kind = "replicate"
    /\ call = Idle
    /\ LET r == replicate_analyze_document(model_loaded, gdpr_data, document_text, backend)
       IN call' = [op |-> "analyze", document_text |-> document_text,
                   called |-> model_loaded, backend |-> backend,
                   prompt |-> Prompt(gdpr_data, document_text),
                   raised |-> r.raised, error |-> r.error, weak_points |-> r.weak_points,
                   actions |-> r.actions, action_plan |-> r.action_plan,
                   compliance_score |-> IF r.raised THEN 0 ELSE compliance_score(r.weak_points)]
    /\ UNCHANGED <<kind, scraper, model_loaded, gdpr_data>>

\* The caller is done with the result of the last operation.
Rerun ==
  /\ call # Idle
  /\ call' = Idle
  /\ UNCHANGED <<kind, scraper, model_loaded, gdpr_data>>

Next ==
  \/ NewReplicateAnalyzer
  \/ get_gdpr_analyzer
  \/ UpdateGdprRequirements
  \/ AnalyzeDocumentFallback
  \/ AnalyzeDocumentReplicate
  \/ Rerun

Spec == Init /\ [][Next]_vars

(***************************************************************************)
(* The coverage check on its own: a document is drawn, the check is        *)
(* applied to it, then to the document with one keyword of the lexicon     *)
(* inserted between two of its pieces.                                     *)
(***************************************************************************)

InitCoverage ==
  /\ kind \in {"replicate", "fallback"}
  /\ scraper = TRUE
  /\ model_loaded = (kind = "replicate")
  /\ gdpr_data = FrozenSnapshot
  /\ \E parts \in DocParts : call = [op |-> "document", parts |-> parts]

KeywordAnalysis ==
  /\ call.op = "document"
  /\ call' = [op |-> "coverage", parts |-> call.parts,
              document_text |-> Flatten(call.parts),
              results |-> keyword_analysis(compliance_keywords(kind), Flatten(call.parts))]
  /\ UNCHANGED <<kind, scraper, model_loaded, gdpr_data>>

AddKeyword ==
  /\ call.op = "coverage"
  /\ \E category \in CategorySet, at \in 0..Len(call.parts) :
       \E i \in 1..Len(compliance_keywords(kind)[category]) :
         LET keyword == compliance_keywords(kind)[category][i]
             parts == SubSeq(call.parts, 1, at) \o <<keyword>>
                        \o SubSeq(call.parts, at + 1, Len(call.parts))
         IN call' = [op |-> "added", parts |-> parts,
                     document_text |-> Flatten(parts),
                     results |-> keyword_analysis(compliance_keywords(kind), Flatten(parts)),
                     category |-> category, keyword |-> keyword, at |-> at,
                     at_an_end |-> (at = 0 \/ at = Len(call.parts)),
                     before |-> call.results]
  /\ UNCHANGED <<kind, scraper, model_loaded, gdpr_data>>

NextCoverage ==
  \/ KeywordAnalysis
  \/ AddKeyword

SpecCoverage == InitCoverage /\ [][NextCoverage]_vars

(***************************************************************************)
(* The merge on its own: a list of findings is drawn, the merge and the    *)
(* removal of duplicates are applied to it as the model's weak points and  *)
(* actions, then to the list followed by itself.                           *)
(***************************************************************************)

\* Findings a decoded response can hold: strings (one empty, one that reads as a
\* record does), a number, records (a narrower one, a wider one, the wider one
\* with its fields in the other order, one that holds a list).
FindingPool ==
  {PyStr(<<"a">>), PyStr(<<>>), PyStr(<<"{", "'", "issue", "'", ": ", "'", "x", "'", "}">>),
   PyNum(7),
   PyDict(<<[key |-> <<"issue">>, val |-> PyStr(<<"x">>)]>>),
   PyDict(<<[key |-> <<"issue">>, val |-> PyStr(<<"x">>)],
            [key |-> <<"area">>, val |-> PyStr(<<"y">>)]>>),
   PyDict(<<[key |-> <<"area">>, val |-> PyStr(<<"y">>)],
            [key |-> <<"issue">>, val |-> PyStr(<<"x">>)]>>),
   PyDict(<<[key |-> <<"issue">>, val |-> PyStr(<<"x">>)],
            [key |-> <<"refs">>, val |-> PyList(<<PyStr(<<"a">>)>>)]>>)}

InitDedup ==
  /\ kind = "replicate"
  /\ scraper = TRUE
  /\ model_loaded = TRUE
  /\ gdpr_data = FrozenSnapshot
  /\ \E findings \in SeqsUpTo(FindingPool, MaxFindings) :
       call = [op |-> "findings", findings |-> findings]

\* The merge of a response whose weak points and actions are the drawn list.
MergeOnce ==
  /\ call.op = "findings"
  /\ call' = [op |-> "merged", findings |-> call.findings,
              once |-> MergeFindings(model_loaded, gdpr_data, <<>>,
                                     Analysis(call.findings, call.findings))]
  /\ UNCHANGED <<kind, scraper, model_loaded, gdpr_data>>

\* The merge of a response that holds the drawn list twice over.
MergeDoubled ==
  /\ call.op = "merged"
  /\ LET doubled == call.findings \o call.findings
     IN call' = [op |-> "doubled", findings |-> call.findings, once |-> call.once,
                 doubled |-> MergeFindings(model_loaded, gdpr_data, <<>>,
                                           Analysis(doubled, doubled))]
  /\ UNCHANGED <<kind, scraper, model_loaded, gdpr_data>>

NextDedup ==
  \/ MergeOnce
  \/ MergeDoubled

SpecDedup == InitDedup /\ [][NextDedup]_vars

(***************************************************************************)
(* An analysis and refreshes in two threads on one analyzer.  The analysis *)
(* advances from one read of self.gdpr_data to the next; a refresh assigns *)
(* self.gdpr_data in one step.  call holds the locals of the analysis and, *)
(* in held, the snapshots the analyzer held while it ran.                  *)
(***************************************************************************)

\* An analyzer of either kind built with a scraper, nothing in progress.
InitConcurrent ==
  /\ kind \in {"replicate", "fallback"}
  /\ scraper = TRUE
  /\ model_loaded = (kind = "replicate")
  /\ \E fetch \in FetchOutcomes : gdpr_data = get_gdpr_requirements(TRUE, fetch)
  /\ call = Idle

\* GDPRFallbackAnalyzer.analyze_document up to its first read of the snapshot:
\* the categories the document leaves uncovered.
FallbackBegin ==
  \E document_text \in ModelDocuments :
    /\ kind = "fallback"
    /\ call = Idle
    /\ LET pending == Uncovered(keyword_analysis(FallbackKeywords, document_text))
       IN call' = [op |-> "analyzing", document_text |-> document_text,
                   at |-> IF pending = <<>> THEN "changes" ELSE "weak_point",
                   pending |-> pending, weak_points |-> <<>>, actions |-> <<>>,
                   recent_changes |-> <<>>, held |-> <<gdpr_data>>]
    /\ UNCHANGED <<kind, scraper, model_loaded, gdpr_data>>

\* weak_points.append(self.gdpr_data["common_weak_points"][category])
FallbackReadWeakPoint ==
  /\ kind = "fallback"
  /\ call.op = "analyzing"
  /\ call.at = "weak_point"
  /\ call' = [call EXCEPT
                !.weak_points = @ \o RuleWeakPoints(gdpr_data, <<Head(call.pending)>>),
                !.at = "templates"]
  /\ UNCHANGED <<kind, scraper, model_loaded, gdpr_data>>

\* for action in self.gdpr_data["action_templates"][category]: ...
FallbackReadTemplates ==
  /\ kind = "fallback"
  /\ call.op = "analyzing"
  /\ call.at = "templates"
  /\ call' = [call EXCEPT
                !.actions = @ \o RuleActions(gdpr_data, <<Head(call.pending)>>),
                !.pending = Tail(@),
                !.at = IF Tail(call.pending) = <<>> THEN "changes" ELSE "weak_point"]
  /\ UNCHANGED <<kind, scraper, model_loaded, gdpr_data>>

\* The DSAR check, then the read of recent_changes when there is an action.
FallbackReadRecentChanges ==
  /\ kind = "fallback"
  /\ call.op = "analyzing"
  /\ call.at = "changes"
  /\ LET document_text_lower == Lower(call.document_text)
         no_timeline == /\ ~Contains(FourteenDay, document_text_lower)
                        /\ ~Contains(FourteenDayInWords, document_text_lower)
         actions == call.actions \o (IF no_timeline THEN <<DsarAction>> ELSE <<>>)
     IN call' = [call EXCEPT
                   !.weak_points = @ \o (IF no_timeline THEN <<DsarWeakPoint>> ELSE <<>>),
                   !.actions = actions,
                   !.recent_changes = IF actions # <<>> THEN gdpr_data.recent_changes ELSE <<>>,
                   !.at = "requirements"]
  /\ UNCHANGED <<kind, scraper, model_loaded, gdpr_data>>

\* The read of key_requirements for the footer, and the return.
FallbackReadKeyRequirements ==
  /\ kind = "fallback"
  /\ call.op = "analyzing"
  /\ call.at = "requirements"
  /\ LET read == [recent_changes |-> call.recent_changes,
                  key_requirements |-> gdpr_data.key_requirements]
     IN call' = [op |-> "analyzed", document_text |-> call.document_text, raised |-> FALSE,
                 weak_points |-> PyStrs(call.weak_points),
                 action_plan |-> PyStrs(FallbackActionPlan(read, call.actions)),
                 held |-> call.held]
  /\ UNCHANGED <<kind, scraper, model_loaded, gdpr_data>>

\* GDPRReplicateAnalyzer.analyze_document up to the first read of the snapshot.
ReplicateBegin ==
  \E document_text \in ModelDocuments :
    /\ kind = "replicate"
    /\ call = Idle
    /\ call' = [op |-> "analyzing", document_text |-> document_text,
                at |-> "prompt_changes", held |-> <<gdpr_data>>]
    /\ UNCHANGED <<kind, scraper, model_loaded, gdpr_data>>

\* gdpr_context = f"Recent GDPR changes: {self.gdpr_data['recent_changes']}\n\n"
ReplicatePromptChanges ==
  /\ kind = "replicate"
  /\ call.op = "analyzing"
  /\ call.at = "prompt_changes"
  /\ call' = [op |-> "analyzing", document_text |-> call.document_text,
              at |-> "prompt_requirements", held |-> call.held,
              prompt_changes |-> gdpr_data.recent_changes]
  /\ UNCHANGED <<kind, scraper, model_loaded, gdpr_data>>

\* for i, req in enumerate(self.gdpr_data["key_requirements"][:5]): ...
ReplicatePromptRequirements ==
  /\ kind = "replicate"
  /\ call.op = "analyzing"
  /\ call.at = "prompt_requirements"
  /\ LET read == [recent_changes |-> call.prompt_changes,
                  key_requirements |-> gdpr_data.key_requirements]
     IN call' = [op |-> "analyzing", document_text |-> call.document_text,
                 at |-> "backend", held |-> call.held,
                 prompt |-> Prompt(read, call.document_text)]
  /\ UNCHANGED <<kind, scraper, model_loaded, gdpr_data>>

\* The call of the backend, the interpretation of its response, the two loops
\* and the removal of duplicates: no read of the snapshot.
ReplicateCallBackend ==
  \E backend \in {Raising(<<"timed out">>), Returning(PyStr(ValidAnalysisText)),
                  Returning(PyStr(MissingActionsText))} :
    /\ kind = "replicate"
    /\ call.op = "analyzing"
    /\ call.at = "backend"
    /\ LET r == replicate_analyze_document(model_loaded, gdpr_data, call.document_text, backend)
       IN call' = [op |-> "analyzing", document_text |-> call.document_text,
                   at |-> "changes", held |-> call.held, prompt |-> call.prompt,
                   backend |-> backend, weak_points |-> r.weak_points,
                   actions |-> r.actions, recent_changes |-> <<>>]
    /\ UNCHANGED <<kind, scraper, model_loaded, gdpr_data>>

\* The read of recent_changes when there is an action (every snapshot has a
\* recent_changes text, so the test at 396 passes whichever snapshot it reads).
ReplicateReadRecentChanges ==
  /\ kind = "replicate"
  /\ call.op = "analyzing"
  /\ call.at = "changes"
  /\ call' = [call EXCEPT
                !.recent_changes = IF call.actions # <<>> THEN gdpr_data.recent_changes ELSE <<>>,
                !.at = "requirements"]
  /\ UNCHANGED <<kind, scraper, model_loaded, gdpr_data>>

\* The read of key_requirements for the footer, and the return.
ReplicateReadKeyRequirements ==
  /\ kind = "replicate"
  /\ call.op = "analyzing"
  /\ call.at = "requirements"
  /\ LET read == [recent_changes |-> call.recent_changes,
                  key_requirements |-> gdpr_data.key_requirements]
     IN call' = [op |-> "analyzed", document_text |-> call.document_text, raised |-> FALSE,
                 weak_points |-> call.weak_points,
                 action_plan |-> ReplicateActionPlan(read, call.actions),
                 held |-> call.held, prompt |-> call.prompt, backend |-> call.backend]
  /\ UNCHANGED <<kind, scraper, model_loaded, gdpr_data>>

\* update_gdpr_requirements in the other thread while the analysis runs.
ConcurrentRefresh ==
  \E fetch \in FetchOutcomes :
    /\ call.op = "analyzing"
    /\ Len(call.held) <= MaxRefreshes
    /\ LET r == update_gdpr_requirements(gdpr_data, scraper, fetch)
       IN /\ gdpr_data' = r.gdpr_data
          /\ call' = [call EXCEPT
                        !.held = IF r.gdpr_data = gdpr_data THEN @ ELSE Append(@, r.gdpr_data)]
    /\ UNCHANGED <<kind, scraper, model_loaded>>

NextConcurrent ==
  \/ FallbackBegin
  \/ FallbackReadWeakPoint
  \/ FallbackReadTemplates
  \/ FallbackReadRecentChanges
  \/ FallbackReadKeyRequirements
  \/ ReplicateBegin
  \/ ReplicatePromptChanges
  \/ ReplicatePromptRequirements
  \/ ReplicateCallBackend
  \/ ReplicateReadRecentChanges
  \/ ReplicateReadKeyRequirements
  \/ ConcurrentRefresh

SpecConcurrent == InitConcurrent /\ [][NextConcurrent]_vars

(***************************************************************************)
(* The model-backed analysis with the call of the backend as a step of its *)
(* own: the analyzer enters replicate.run and stays in it until the        *)
(* backend returns or raises.  The caller takes a result whenever there is *)
(* one; nothing makes the backend answer.                                  *)
(***************************************************************************)

\* analyze_document up to `response = replicate.run(self.model_name, input=input_params)`:
\* the prompt is sent with no timeout argument and no deadline around the call.
EnterBackendCall ==
  \E document_text \in ModelDocuments :
    /\ kind = "replicate"
    /\ call = Idle
    /\ call' = [op |-> "blocked", document_text |-> document_text,
                prompt |-> Prompt(gdpr_data, document_text)]
    /\ UNCHANGED <<kind, scraper, model_loaded, gdpr_data>>

\* replicate.run returns a response or raises, and analyze_document runs to its
\* return: nothing after the call waits for anything.
BackendAnswers ==
  \E backend \in BackendOutcomes :
    /\ call.op = "blocked"
    /\ LET r == replicate_analyze_document(model_loaded, gdpr_data, call.document_text, backend)
       IN call' = [op |-> "analyze", document_text |-> call.document_text,
                   called |-> model_loaded, backend |-> backend, prompt |-> call.prompt,
                   raised |-> r.raised, error |-> r.error, weak_points |-> r.weak_points,
                   actions |-> r.actions, action_plan |-> r.action_plan,
                   compliance_score |-> IF r.raised THEN 0 ELSE compliance_score(r.weak_points)]
    /\ UNCHANGED <<kind, scraper, model_loaded, gdpr_data>>

\* The caller is done with the result.
ResultTaken ==
  /\ call.op = "analyze"
  /\ call' = Idle
  /\ UNCHANGED <<kind, scraper, model_loaded, gdpr_data>>

NextBlocking ==
  \/ EnterBackendCall
  \/ BackendAnswers
  \/ ResultTaken

SpecBlocking ==
  /\ InitConcurrent
  /\ [][NextBlocking]_vars
  /\ WF_vars(ResultTaken)

(***************************************************************************)
(* The rule-based analyzer fed by a source whose dictionary may lack a     *)
(* category.  self.scraper is whatever object the analyzer was given;      *)
(* update_gdpr_requirements takes the dictionary it returns when that has  *)
(* key requirements, and looks at nothing else in it.                      *)
(***************************************************************************)

\* What self.scraper.get_gdpr_requirements() returns: the scraper's dictionary,
\* whole or with one entry of one table missing.
SourceDictionaries ==
  LET whole == {ScraperRequirements(fetch.web) : fetch \in {f \in FetchOutcomes : ~f.raises}}
  IN whole \cup {[req EXCEPT ![table] = [c \in (DOMAIN @) \ {category} |-> @[c]]] :
                   req \in whole, table \in {"common_weak_points", "action_templates"},
                   category \in CategorySet}

\* update_gdpr_requirements with the dictionary the source returned.
RefreshFromSource ==
  \E new_requirements \in SourceDictionaries :
    /\ kind = "fallback"
    /\ call = Idle
    /\ gdpr_data' = IF Complete(new_requirements) THEN new_requirements ELSE gdpr_data
    /\ call' = [op |-> "update", returned |-> "None", raised |-> FALSE]
    /\ UNCHANGED <<kind, scraper, model_loaded>>

\* analyze_document on the snapshot held.
AnalyzeHeldSnapshot ==
  \E document_text \in ModelDocuments :
    /\ kind = "fallback"
    /\ call = Idle
    /\ LET r == fallback_analyze_document(gdpr_data, document_text)
       IN call' = [op |-> "analyze", document_text |-> document_text,
                   raised |-> r.raised, error |-> r.error, weak_points |-> r.weak_points,
                   actions |-> r.actions, action_plan |-> r.action_plan]
    /\ UNCHANGED <<kind, scraper, model_loaded, gdpr_data>>

NextPartial ==
  \/ RefreshFromSource
  \/ AnalyzeHeldSnapshot
  \/ Rerun

SpecPartial == InitConcurrent /\ [][NextPartial]_vars

(***************************************************************************)
(* The prompt on its own: a document of a length around max_length is      *)
(* drawn and the prompt is built from it.                                  *)
(***************************************************************************)

\* A document of n characters whose neighbours differ.
DocumentOfLength(n) ==
  [i \in 1..n |-> <<"0", "1", "2", "3", "4", "5", "6", "7", "8", "9">>[(i % 10) + 1]]

InitPrompt ==
  /\ kind = "replicate"
  /\ scraper = TRUE
  /\ model_loaded = TRUE
  /\ \E fetch \in FetchOutcomes : gdpr_data = get_gdpr_requirements(TRUE, fetch)
  /\ \E n \in {0, 1, max_length - 1, max_length, max_length + 1, max_length + 2} :
       call = [op |-> "document", document_text |-> DocumentOfLength(n)]

\* _analyze_with_replicate up to the prompt.
BuildPrompt ==
  /\ call.op = "document"
  /\ call' = [op |-> "prompt", document_text |-> call.document_text,
              prompt |-> Prompt(gdpr_data, call.document_text)]
  /\ UNCHANGED <<kind, scraper, model_loaded, gdpr_data>>

SpecPrompt == InitPrompt /\ [][BuildPrompt]_vars

(***************************************************************************)
(* Snapshot acquisition and refresh.                                       *)
(***************************************************************************)

\* The live fetch failed: the scraper call raised, or no page could be fetched
\* and parsed, or no principle was extracted from the articles.
LiveFetchFailed(fetch) ==
  \/ fetch.raises
  \/ /\ fetch.web.main.status # "page"
     /\ \A n \in KeyArticleSet : fetch.web.articles[n].status # "page"
  \/ get_key_gdpr_principles(fetch.web.articles) = <<>>

\* The refresh found nothing to install: no scraper, a raising fetch, or a
\* result without key_requirements.
RefreshFailed(has_scraper, fetch) ==
  \/ ~has_scraper
  \/ fetch.raises
  \/ ScraperRequirements(fetch.web).key_requirements = <<>>

\* C1: acquisition at construction never raises, and whenever the live fetch
\* failed the analyzer holds the compiled-in frozen snapshot, with
\* is_live_data = false.
C1_AcquireFallsBackToFrozen ==
  call.op = "construct" =>
    /\ ~call.raised
    /\ LiveFetchFailed(call.fetch) =>
         /\ gdpr_data = FrozenSnapshot
         /\ gdpr_data.is_live_data = FALSE

\* C2: a refresh whose fetch raises or yields no key_requirements leaves the
\* snapshot as it was before the call; a successful refresh makes the snapshot the
\* fetched dictionary, field for field, with no field of the old one left.
C2_RefreshReplacesWholeOrKeeps ==
  call.op = "update" =>
    IF RefreshFailed(scraper, call.fetch)
    THEN gdpr_data = call.before
    ELSE /\ DOMAIN gdpr_data = DOMAIN ScraperRequirements(call.fetch.web)
         /\ \A f \in DOMAIN gdpr_data : gdpr_data[f] = ScraperRequirements(call.fetch.web)[f]

\* A successful refresh has replaced a snapshot that carried a field (is_live_data)
\* the fetched one lacks.
C2_Witness ==
  /\ call.op = "update"
  /\ ~RefreshFailed(scraper, call.fetch)
  /\ "is_live_data" \in DOMAIN call.before
  /\ gdpr_data # call.before

\* C3: the refresh returns true exactly when it replaced the snapshot (and a
\* value that is not true when it kept the prior one).
C3_RefreshReportsChange ==
  call.op = "update" =>
    (call.returned = "True" <=> ~RefreshFailed(scraper, call.fetch))

\* C4: once an analyzer exists, the common_weak_points and the action_templates
\* of its snapshot have exactly the six categories as keys, and every template
\* sequence is non-empty.
C4_SnapshotHasSixCategories ==
  kind # "none" =>
    /\ DOMAIN gdpr_data.common_weak_points = CategorySet
    /\ DOMAIN gdpr_data.action_templates = CategorySet
    /\ \A c \in CategorySet : Len(gdpr_data.action_templates[c]) > 0

\* A refresh has installed the scraper's snapshot after a refresh that failed
\* kept the one acquired at construction.
C4_Witness ==
  /\ call.op = "update"
  /\ ~RefreshFailed(scraper, call.fetch)
  /\ "is_live_data" \notin DOMAIN gdpr_data
  /\ gdpr_data.action_templates # FrozenActionTemplates

(***************************************************************************)
(* Keyword coverage.                                                       *)
(***************************************************************************)

\* The upper-case letters, each with its lower-case form.
CasePairs == {<<UpperChars[i], LowerChars[i]>> : i \in 1..Len(UpperChars)}

\* Two characters are the same up to the case of a letter.
SameLetter(a, b) == a = b \/ <<a, b>> \in CasePairs \/ <<b, a>> \in CasePairs

\* keyword occurs in text as a substring, case ignored.
OccursIgnoringCase(keyword, text) ==
  \E i \in 0..(Len(text) - Len(keyword)) :
     \A j \in 1..Len(keyword) : SameLetter(text[i + j], keyword[j])

\* C5: a category is covered exactly when one of its keywords occurs in the
\* document as a substring, case ignored; the empty document covers nothing.
C5_CoverageIsCaseInsensitiveSubstring ==
  call.op \in {"coverage", "added"} =>
    /\ \A c \in CategorySet :
         call.results[c] <=>
           \E k \in Range(compliance_keywords(kind)[c]) : OccursIgnoringCase(k, call.document_text)
    /\ call.document_text = <<>> => \A c \in CategorySet : ~call.results[c]

\* A document in mixed case whose upper-case keyword is found, with another
\* category left uncovered.
C5_Witness ==
  /\ call.op = "coverage"
  /\ call.document_text # Lower(call.document_text)
  /\ call.results["data_subject_rights"]
  /\ ~call.results["data_breach"]

\* C6 as stated: inserting a keyword of category c never turns c from covered to
\* uncovered and leaves every other category's coverage as it was.
C6_InsertionTouchesOnlyItsCategory ==
  call.op = "added" =>
    /\ call.before[call.category] => call.results[call.category]
    /\ \A c \in CategorySet \ {call.category} : call.results[c] = call.before[c]

\* C6, amended: after the insertion c is covered, and a keyword added at the
\* start or at the end of the document turns no category from covered to
\* uncovered.
C6_InsertionCoversAndEndsKeep ==
  call.op = "added" =>
    /\ call.results[call.category]
    /\ call.at_an_end => \A c \in CategorySet : call.before[c] => call.results[c]

\* A keyword appended to a document has covered a second category as well: one of
\* that category's keywords formed across the seam.
C6_Witness ==
  /\ call.op = "added"
  /\ call.at_an_end
  /\ \E c \in CategorySet \ {call.category} : ~call.before[c] /\ call.results[c]

(***************************************************************************)
(* Rule-based findings.                                                    *)
(***************************************************************************)

\* The categories none of whose keywords occurs in the text, in declaration order.
UncoveredIn(lexicon, text) ==
  SelectSeq(Categories,
            LAMBDA c : ~\E k \in Range(lexicon[c]) : OccursIgnoringCase(k, text))

\* C7: the rule-based analyzer reports, for every uncovered category in
\* declaration order, the category's common weak point, and its template entries
\* in template order (right after the recent-changes entry of the plan); a
\* covered category contributes neither.
C7_RuleFindingsPerUncoveredCategory ==
  (call.op = "analyze" /\ kind = "fallback" /\ ~call.raised) =>
    LET uncovered == UncoveredIn(FallbackKeywords, call.document_text)
        covered == CategorySet \ Range(uncovered)
        weak == [i \in 1..Len(uncovered) |-> PyStr(gdpr_data.common_weak_points[uncovered[i]])]
        actions == PyStrs(Flatten([i \in 1..Len(uncovered) |->
                                     gdpr_data.action_templates[uncovered[i]]]))
    IN /\ Len(call.weak_points) >= Len(weak)
       /\ SubSeq(call.weak_points, 1, Len(weak)) = weak
       /\ Len(call.action_plan) >= Len(actions)
       /\ actions # <<>> => SubSeq(call.action_plan, 2, Len(actions) + 1) = actions
       /\ \A c \in covered :
            /\ PyStr(gdpr_data.common_weak_points[c]) \notin Range(call.weak_points)
            /\ \A a \in Range(gdpr_data.action_templates[c]) : PyStr(a) \notin Range(call.action_plan)

\* The rule-based analyzer has analysed a document that covers some categories
\* and leaves others uncovered, on a snapshot a refresh installed.
C7_Witness ==
  /\ call.op = "analyze"
  /\ kind = "fallback"
  /\ "is_live_data" \notin DOMAIN gdpr_data
  /\ Len(UncoveredIn(FallbackKeywords, call.document_text)) \in 2..4

(***************************************************************************)
(* The model-backed analyzer.                                              *)
(***************************************************************************)

\* The weak points the model produced: the entries of the interpreted response
\* that count as findings.
ModelWeakPoints(analysis) ==
  SelectSeq(Iterate(DictGet(analysis, <<"weak_points">>, PyList(<<>>))).items, Truthy)

\* C8: in the model-backed analyzer, when the model produced at least one weak
\* point no rule-based finding is in the result, and when it produced none the
\* weak points of the result are the rule-based findings of the uncovered
\* categories.
C8_ModelPriorityMerge ==
  (call.op = "analyze" /\ kind = "replicate" /\ call.called /\ ~call.raised) =>
    LET produced == ModelWeakPoints(analyze_with_replicate(TRUE, gdpr_data, call.document_text,
                                                           call.backend))
        uncovered == UncoveredIn(ReplicateKeywords, call.document_text)
    IN IF produced # <<>>
       THEN \A c \in CategorySet :
              PyStr(gdpr_data.common_weak_points[c]) \notin Range(call.weak_points)
       ELSE call.weak_points = PyStrs(RuleWeakPoints(gdpr_data, uncovered))

\* C9: when the call of the backend raises, the interpreter returns exactly one
\* weak point, which describes the failure, and no action, and the analysis
\* returns that finding with an empty plan instead of raising.
C9_BackendErrorBecomesOneWeakPoint ==
  (call.op = "analyze" /\ kind = "replicate" /\ call.called /\ call.backend.raises) =>
    LET failure == PyStr(<<"Error using Replicate API: ">> \o call.backend.error)
        analysis == analyze_with_replicate(TRUE, gdpr_data, call.document_text, call.backend)
    IN /\ DictGet(analysis, <<"weak_points">>, PyNone) = PyList(<<failure>>)
       /\ DictGet(analysis, <<"actions">>, PyNone) = PyList(<<>>)
       /\ ~call.raised
       /\ call.weak_points = <<failure>>
       /\ call.action_plan = <<>>

\* A document was analysed with a token while the backend raised an error that
\* carries a message.
C9_Witness ==
  /\ call.op = "analyze"
  /\ kind = "replicate"
  /\ call.called
  /\ call.backend.raises
  /\ call.backend.error # <<>>
  /\ call.document_text # <<>>

\* C10: whatever text the backend returns, analyze_document on the model-backed
\* analyzer completes without raising.
C10_AnalysisNeverRaises ==
  (call.op = "analyze" /\ kind = "replicate" /\ call.called /\ ~call.backend.raises) =>
    ~call.raised

\* The text has no brace span that decodes and no section the two patterns find.
NoStructure(text) ==
  LET span == BraceSpan(text)
  IN /\ ~span.found \/ ~json_loads(span.text).ok
     /\ HeuristicAnalysis(text) = Analysis(<<>>, <<>>)

\* C11: a response with no structure that decodes and no heuristic match (braces
\* that are no JSON, no weak or action section) gives empty weak points and
\* actions, unlike a failed backend call, which gives the synthetic finding.
C11_MalformedResponseIsEmpty ==
  (/\ call.op = "analyze" /\ kind = "replicate" /\ call.called
   /\ ~call.backend.raises
   /\ NoStructure(ResponseText(call.backend.response))) =>
    /\ analyze_with_replicate(TRUE, gdpr_data, call.document_text, call.backend)
         = Analysis(<<>>, <<>>)
    /\ ~call.raised
    /\ call.weak_points = <<>>
    /\ call.action_plan = <<>>

\* The rule-based findings a snapshot holds: its common weak points and the
\* entries of its action templates.
RuleFindingTexts(gdpr) ==
  {gdpr.common_weak_points[c] : c \in DOMAIN gdpr.common_weak_points}
    \cup UNION {Range(gdpr.action_templates[c]) : c \in DOMAIN gdpr.action_templates}

\* C12: when the backend raises, analyze_document of the model-backed analyzer
\* returns without raising, its weak points are one entry, the finding that
\* reports the failure, and no rule-based finding is in the result.
C12_BackendFailureResilience ==
  (call.op = "analyze" /\ kind = "replicate" /\ call.called /\ call.backend.raises) =>
    /\ ~call.raised
    /\ Len(call.weak_points) = 1
    /\ call.weak_points[1].k = "str"
    /\ Head(call.weak_points[1].v) = "Error using Replicate API: "
    /\ \A f \in RuleFindingTexts(gdpr_data) :
         PyStr(f) \notin Range(call.weak_points) \cup Range(call.action_plan)

\* The backend raised during the analysis of a document that leaves all six
\* categories uncovered.
C12_Witness ==
  /\ call.op = "analyze"
  /\ kind = "replicate"
  /\ call.called
  /\ call.backend.raises
  /\ Len(UncoveredIn(ReplicateKeywords, call.document_text)) = 6

\* C13: the merge and the removal of duplicates give for a list of findings
\* followed by itself what they give for the list alone, whether its findings
\* are scalars or records.
C13_DedupIdempotent ==
  call.op = "doubled" => call.doubled = call.once

(***************************************************************************)
(* The action plan.                                                        *)
(***************************************************************************)

\* C14: when the action list is empty after the merge, analyze_document returns
\* an empty plan: no recent-changes entry, no key-requirements footer.
C14_EmptyActionsGiveEmptyPlan ==
  (call.op = "analyze" /\ ~call.raised /\ call.actions = <<>>) => call.action_plan = <<>>

\* The model reported a weak point and no action.
C14_Witness ==
  /\ call.op = "analyze"
  /\ kind = "replicate"
  /\ call.called
  /\ ~call.backend.raises
  /\ ~call.raised
  /\ call.weak_points = <<PyStr(<<"No", " ", "consent">>)>>
  /\ call.actions = <<>>

\* C15 as claimed: when the action list is not empty, the plan starts with
\* "Recent changes to address: " followed by the snapshot's recent_changes, which
\* is then not empty.
C15_PreambleAsClaimed ==
  (call.op = "analyze" /\ ~call.raised /\ call.actions # <<>>) =>
    /\ gdpr_data.recent_changes # <<>>
    /\ Head(call.action_plan)
         = PyStr(<<"Recent changes to address: ">> \o gdpr_data.recent_changes)

\* C15 as amended: when the action list is not empty, the plan starts with
\* "Recent GDPR changes to address: " followed by the snapshot's recent_changes,
\* which no snapshot leaves empty; when the list is empty no entry starts so.
C15_PreambleLeadsThePlan ==
  (call.op = "analyze" /\ ~call.raised) =>
    IF call.actions # <<>>
    THEN /\ gdpr_data.recent_changes # <<>>
         /\ Head(call.action_plan)
              = PyStr(<<"Recent GDPR changes to address: ">> \o gdpr_data.recent_changes)
         /\ SubSeq(call.action_plan, 2, Len(call.actions) + 1) = call.actions
    ELSE \A i \in 1..Len(call.action_plan) :
           call.action_plan[i].k = "str" =>
             Take(call.action_plan[i].v, 1) # <<"Recent GDPR changes to address: ">>

\* The model-backed analyzer returned actions while holding a snapshot whose
\* recent changes were read from the site.
C15_Witness ==
  /\ call.op = "analyze"
  /\ kind = "replicate"
  /\ ~call.raised
  /\ call.actions # <<>>
  /\ Head(gdpr_data.recent_changes) = "Latest updates: "

\* A text of the snapshot without the tag of the frozen snapshot.
Untagged(text) ==
  IF text # <<>> /\ Head(text) = "Predefined:"
  THEN SelectSeq(Tail(text), LAMBDA atom : atom # " ")
  ELSE text

\* C16: when the action list is not empty, the plan of either analyzer ends with
\* the header line and one bullet line per key requirement, in the snapshot's
\* order, and no bullet line carries the tag "Predefined:".
C16_FooterListsUntaggedRequirements ==
  (call.op = "analyze" /\ ~call.raised /\ call.actions # <<>>) =>
    LET n == Len(gdpr_data.key_requirements)
        plan == call.action_plan
        m == Len(plan) - n
    IN /\ m >= 1
       /\ plan[m] = PyStr(<<"Ensure all key GDPR requirements are met, including:">>)
       /\ \A i \in 1..n :
            /\ plan[m + i] = PyStr(<<"- ">> \o Untagged(gdpr_data.key_requirements[i]))
            /\ "Predefined:" \notin Range(plan[m + i].v)

(***************************************************************************)
(* The score.                                                              *)
(***************************************************************************)

\* C17: the score of n weak points is 100 for n = 0 and max(10, 100 - 15 n)
\* otherwise; it lies in 10..100, does not grow with n, and is 10 for 6 and for 7
\* weak points.
C17_ScoreFormula ==
  (call.op = "analyze" /\ ~call.raised) =>
    LET n == Len(call.weak_points)
        score(m) == compliance_score(SubSeq(call.weak_points, 1, m))
    IN /\ call.compliance_score
            = IF n = 0 THEN 100 ELSE IF 100 - 15 * n > 10 THEN 100 - 15 * n ELSE 10
       /\ call.compliance_score \in 10..100
       /\ \A m \in 1..n : score(m) <= score(m - 1)
       /\ n >= 6 => score(6) = 10
       /\ n >= 7 => score(7) = 10

\* An analysis found seven weak points: six categories and the DSAR timeline.
C17_Witness ==
  /\ call.op = "analyze"
  /\ ~call.raised
  /\ Len(call.weak_points) = 7

(***************************************************************************)
(* Scenarios on the analyzer the factory returns without a backend.        *)
(***************************************************************************)

\* The text names the 14-day timeline as the rule-based analyzer looks for it.
NamesTimeline(text) ==
  \/ OccursIgnoringCase(<<"1", "4", " ", "d", "a", "y">>, text)
  \/ OccursIgnoringCase(<<"f", "o", "u", "r", "t", "e", "e", "n", " ", "d", "a", "y">>, text)

\* The number of template entries of the six categories.
TemplateTotal(gdpr) ==
  Len(Flatten([i \in 1..Len(Categories) |-> gdpr.action_templates[Categories[i]]]))

\* C18 as claimed: for a document with no keyword of any category, the plan of
\* the rule-based analyzer has as many entries as the six templates together,
\* plus 2 (the recent-changes entry and the footer header).
C18_PlanLengthAsClaimed ==
  (/\ call.op = "analyze" /\ kind = "fallback" /\ ~call.raised
   /\ Len(UncoveredIn(FallbackKeywords, call.document_text)) = 6) =>
    Len(call.action_plan) = TemplateTotal(gdpr_data) + 2

\* C18 as amended: the plan has the entries of the six templates, the
\* recent-changes entry, the footer header, one line per key requirement, and
\* the DSAR action unless the document names the 14-day timeline; the weak
\* points are six, and the DSAR one unless the timeline is named.
C18_PlanLengthWithFooterLines ==
  (/\ call.op = "analyze" /\ kind = "fallback" /\ ~call.raised
   /\ Len(UncoveredIn(FallbackKeywords, call.document_text)) = 6) =>
    LET dsar == IF NamesTimeline(call.document_text) THEN 0 ELSE 1
    IN /\ Len(call.action_plan)
            = TemplateTotal(gdpr_data) + 2 + Len(gdpr_data.key_requirements) + dsar
       /\ Len(call.weak_points) = 6 + dsar

\* The rule-based analyzer analysed a document that names the timeline and no
\* keyword, on a snapshot whose key requirements were read from the site.
C18_Witness ==
  /\ call.op = "analyze"
  /\ kind = "fallback"
  /\ ~call.raised
  /\ Len(UncoveredIn(FallbackKeywords, call.document_text)) = 6
  /\ NamesTimeline(call.document_text)
  /\ gdpr_data.key_requirements # DefaultKeyRequirements

\* C19 as claimed: for a document with a keyword of each of the six categories
\* the rule-based analyzer returns no weak point and an empty plan, and the score
\* is 100.
C19_AllCoveredAsClaimed ==
  (/\ call.op = "analyze" /\ kind = "fallback" /\ ~call.raised
   /\ UncoveredIn(FallbackKeywords, call.document_text) = <<>>) =>
    /\ call.weak_points = <<>>
    /\ call.action_plan = <<>>
    /\ call.compliance_score = 100

\* C19 as amended: for such a document that also names the 14-day timeline the
\* result is no weak point, an empty plan and the score 100; when it does not
\* name the timeline the result is the DSAR weak point alone, a plan around the
\* DSAR action alone, and the score 85.
C19_AllCoveredAndTimeline ==
  (/\ call.op = "analyze" /\ kind = "fallback" /\ ~call.raised
   /\ UncoveredIn(FallbackKeywords, call.document_text) = <<>>) =>
    IF NamesTimeline(call.document_text)
    THEN /\ call.weak_points = <<>>
         /\ call.action_plan = <<>>
         /\ call.compliance_score = 100
    ELSE /\ call.weak_points
              = <<PyStr(<<"Missing updated timeline for Data Subject Access Requests (now 14 days)">>)>>
         /\ call.actions
              = <<PyStr(<<"Update policy to reflect the new 14-day timeline for responding to DSARs">>)>>
         /\ Len(call.action_plan) = 3 + Len(gdpr_data.key_requirements)
         /\ call.compliance_score = 85

\* The rule-based analyzer analysed a document that covers the six categories
\* and names the timeline.
C19_Witness ==
  /\ call.op = "analyze"
  /\ kind = "fallback"
  /\ ~call.raised
  /\ UncoveredIn(FallbackKeywords, call.document_text) = <<>>
  /\ NamesTimeline(call.document_text)

(***************************************************************************)
(* An analysis beside a refresh.                                           *)
(***************************************************************************)

\* C20: when an analysis runs beside a refresh that replaces the snapshot, what
\* it returns (and the prompt it sent) is what one of the snapshots the
\* analyzer held gives on its own: no result mixes fields of two snapshots.
C20_AnalysisReadsOneSnapshot ==
  call.op = "analyzed" =>
    \E held \in Range(call.held) :
      IF kind = "fallback"
      THEN LET alone == fallback_analyze_document(held, call.document_text)
           IN /\ call.weak_points = alone.weak_points
              /\ call.action_plan = alone.action_plan
      ELSE LET alone == replicate_analyze_document(model_loaded, held, call.document_text,
                                                   call.backend)
           IN /\ call.weak_points = alone.weak_points
              /\ call.action_plan = alone.action_plan
              /\ call.prompt = Prompt(held, call.document_text)

(***************************************************************************)
(* A backend that does not answer.                                         *)
(***************************************************************************)

\* C21: an analysis that has called the backend eventually returns, whether or
\* not the backend ever answers.
C21_AnalysisReturnsDespiteSilentBackend ==
  (call.op = "blocked") ~> (call.op = "analyze")

(***************************************************************************)
(* A brace span that is no JSON.                                           *)
(***************************************************************************)

\* C22: when the response has a span from its first '{' to its last '}' and the
\* span does not decode as JSON, the interpreter returns what the heuristic
\* weak/action splitting of the response gives.
C22_UndecodableSpanFallsBackToHeuristics ==
  (/\ call.op = "analyze" /\ kind = "replicate" /\ call.called
   /\ ~call.backend.raises
   /\ BraceSpan(ResponseText(call.backend.response)).found
   /\ ~json_loads(BraceSpan(ResponseText(call.backend.response)).text).ok) =>
    analyze_with_replicate(TRUE, gdpr_data, call.document_text, call.backend)
      = HeuristicAnalysis(ResponseText(call.backend.response))

(***************************************************************************)
(* Records that contain one another.                                       *)
(***************************************************************************)

\* C23: among the weak points the merge and the removal of duplicates return, no
\* two records are left of which one has every field of the other with an equal
\* value, whichever of the two came first in the response.
C23_NoContainedRecordRemains ==
  (call.op = "merged" /\ ~call.once.raised) =>
    LET weak_points == call.once.weak_points
    IN \A i, j \in 1..Len(weak_points) :
         (i < j /\ weak_points[i].k = "dict" /\ weak_points[j].k = "dict") =>
           /\ ~ItemsSubset(weak_points[i], weak_points[j])
           /\ ~ItemsSubset(weak_points[j], weak_points[i])

(***************************************************************************)
(* A snapshot that lacks a category.                                       *)
(***************************************************************************)

\* The snapshot with the frozen entry put in for every category a table lacks.
WithFrozenDefaults(gdpr) ==
  [gdpr EXCEPT
     !.common_weak_points =
        [c \in CategorySet |-> IF c \in DOMAIN @ THEN @[c] ELSE DefaultWeakPoints[c]],
     !.action_templates =
        [c \in CategorySet |-> IF c \in DOMAIN @ THEN @[c] ELSE FrozenActionTemplates[c]]]

C25_PromptTruncation ==
  call.op = "prompt" =>
    LET document_text == call.document_text
        sent == call.prompt.document_text
    IN IF Len(document_text) > max_length
       THEN /\ Len(sent) = max_length + 3
            /\ \A i \in 1..max_length : sent[i] = document_text[i]
            /\ \A i \in (max_length + 1)..(max_length + 3) : sent[i] = "."
       ELSE sent = document_text

\* A document one character over the maximum has been cut.
C25_Witness ==
  /\ call.op = "prompt"
  /\ Len(call.document_text) = max_length + 1
  /\ call.prompt.document_text # call.document_text

(***************************************************************************)
(* Actions that read as the added entries.                                 *)
(***************************************************************************)

\* How often x occurs in s.
Occurrences(s, x) == Cardinality({i \in DOMAIN s : s[i] = x})

\* The entries analyze_document of the model-backed analyzer adds around a plan.
AddedEntries(gdpr) ==
  <<PyStr(<<RecentChangesPrefix>> \o WithoutPredefined(gdpr.recent_changes)),
    PyStr(KeyRequirementsHeader)>>
    \o [i \in 1..Len(gdpr.key_requirements) |->
          PyStr(<<"- ">> \o WithoutPredefined(gdpr.key_requirements[i]))]

\* C26: the recent-changes entry, the header and the lines per key requirement
\* are added to the plan after the duplicates were removed and are not weighed
\* against the actions: every text is in the returned plan as often as it is
\* among the actions kept plus as often as it is among the added entries.
C26_AddedEntriesEscapeDeduplication ==
  (call.op = "analyze" /\ kind = "replicate" /\ ~call.raised /\ call.actions # <<>>) =>
    /\ Len(call.action_plan) = Len(call.actions) + Len(AddedEntries(gdpr_data))
    /\ \A x \in Range(call.action_plan) :
         Occurrences(call.action_plan, x)
           = Occurrences(call.actions, x) + Occurrences(AddedEntries(gdpr_data), x)

\* The model's actions hold the recent-changes entry and a line of the footer as
\* the analyzer writes them, and the plan returned has each of them twice.
C26_Witness ==
  /\ call.op = "analyze" /\ kind = "replicate" /\ ~call.raised
  /\ \E i \in 1..Len(call.actions) : call.actions[i] = AddedEntries(gdpr_data)[1]
  /\ \E i \in 1..Len(call.actions) : call.actions[i] = AddedEntries(gdpr_data)[3]
  /\ Occurrences(call.action_plan, AddedEntries(gdpr_data)[1]) = 2
  /\ Occurrences(call.action_plan, AddedEntries(gdpr_data)[3]) = 2

(***************************************************************************)
(* No weak point.                                                          *)
(***************************************************************************)

\* C27 as claimed: an analysis of either analyzer that returns no weak point
\* returns an empty plan.
C27_NoWeakPointNoPlanAsClaimed ==
  (call.op = "analyze" /\ ~call.raised /\ call.weak_points = <<>>) =>
    call.action_plan = <<>>

\* C27 as amended: an analysis of the rule-based analyzer that returns no weak
\* point returns an empty plan; one of the model-backed analyzer that returns no
\* weak point returns an empty plan exactly when the response gave no action.
C27_NoWeakPointNoPlanOfRules ==
  (call.op = "analyze" /\ ~call.raised /\ call.weak_points = <<>>) =>
    IF kind = "fallback"
    THEN call.action_plan = <<>>
    ELSE (call.action_plan = <<>>) <=> (call.actions = <<>>)

\* The rule-based analyzer returned no weak point, and the score shown is 100.
C27_Witness ==
  /\ call.op = "analyze"
  /\ kind = "fallback"
  /\ ~call.raised
  /\ call.weak_points = <<>>
  /\ call.compliance_score = 100

(***************************************************************************)
(* The flag of a live snapshot.                                            *)
(***************************************************************************)

\* C28: the snapshot of an analyzer always has the field is_live_data, and after
\* a refresh that installed the fetched dictionary the field is true.
C28_SnapshotCarriesLiveFlag ==
  kind # "none" =>
    /\ "is_live_data" \in DOMAIN gdpr_data
    /\ (call.op = "update" /\ ~RefreshFailed(scraper, call.fetch)) =>
         gdpr_data.is_live_data = TRUE

(***************************************************************************)
(* The factory told not to use the scraper.                                *)
(***************************************************************************)

\* C29: the analyzer get_gdpr_analyzer returns for use_web_scraper = False was
\* built without a call of the scraper, has no scraper (so that a refresh, which
\* asks `if self.scraper`, calls none either), and holds the frozen snapshot.
C29_FactoryHonoursNoScraper ==
  (call.op = "construct" /\ call.by = "get_gdpr_analyzer" /\ ~call.use_web_scraper) =>
    /\ call.scrapes = 0
    /\ ~scraper
    /\ gdpr_data = FrozenSnapshot

====
